---- MODULE Spec2Model ----
(***************************************************************************)
(* Model of the hardware control backend (src/backend.py): the health      *)
(* monitor, the serial command channel, the pin/device service layer and   *)
(* the automation engine.                                                  *)
(*                                                                         *)
(* Times are integers in milliseconds.  Rational results (the average      *)
(* response time, the health score) are kept as exact fractions            *)
(* [num, den]; int() of the smoothing filter's double-precision result is  *)
(* modelled with the table FloatBelow.  Timestamps are not modelled.       *)
(***************************************************************************)
EXTENDS Integers, Sequences, FiniteSets, TLC

\* ------------------------------------------------------------------------
\* Bounds of the model
\* ------------------------------------------------------------------------
MaxCommands == 2
MaxReads == 3
MaxErrors == 1
MaxQueue == 1
WindowExtra == 3
MaxSequences == 1
MaxCreates == 2
MaxEvents == 3
MaxEmits == 2
MaxListeners == 2
MaxWaypoints == 2
MaxSession == 4
MaxLoopSteps == 7
MaxLiveRuns == 1
MaxArmCallbacks == 2
MaxArmCommands == 3
MaxArmCalls == 2
MaxExecutes == 1
MaxDepth == 2
MaxRuns == 2
MaxSteps == 2
MaxThreadCalls == 2

\* ------------------------------------------------------------------------
\* Program constants
\* ------------------------------------------------------------------------
MaxResponseTimes == 100
MaxErrorLog == 50
smoothing_window == 5
TimeoutMs == 1000
ReplyMs == 50

DISCONNECTED == "disconnected"
CONNECTED == "connected"

Pins == {13}
Channels == {"A0"}
Modes == {"OUTPUT", "INPUT"}
Ports == {"COM3"}
RawSamples == {3, 10}
Threads == {"t1", "t2"}

\* Pairs <<previous, new>> in 0..12 for which the double-precision value of
\* previous*0.7 + new*0.3 lies just below the exact (integer) result, so
\* that int() yields one less than the exact value.
FloatBelow == {<<3, 3>>, <<6, 6>>, <<11, 1>>, <<12, 2>>, <<12, 12>>}

VARIABLES
    monitor,            \* HardwareMonitor: status fields, response_times, error_log
    serial_port,        \* STM32HardwareInterface.serial_port
    command_lock,       \* STM32HardwareInterface.command_lock (holder or "free")
    pin_configs,        \* HardwareService.pin_configs
    analog_smoothing,   \* HardwareService.analog_smoothing
    event_queue,        \* EventManager.event_queue
    listeners,          \* EventManager.listeners (event type -> callbacks)
    running,            \* EventManager.running
    dispatch,           \* position of the _process_events thread
    delivered,          \* what the _process_events thread has done so far
    tasks,              \* RoboticArmBackend.tasks (name -> TaskSequence)
    files,              \* the files written so far (filename -> JSON document)
    arm,                \* RoboticArmBackend: link, metrics, positions, callbacks
    sequence_objects,   \* the sequence dicts created so far
    sequences,          \* AutomationEngine.sequences (name -> sequence dict)
    active_sequences,   \* AutomationEngine.active_sequences (name -> run)
    runs,               \* the _run_sequence threads created so far
    threads,            \* concurrent callers of send_command
    link_in,            \* commands written to the link, not yet answered
    link_out,           \* response lines sent by the device, not yet read
    call,               \* the last operation performed and what it returned
    rt_hist,            \* every latency sample recorded so far
    err_hist,           \* every error entry recorded so far
    last_read           \* per channel: the value its last successful analog
                        \* read returned, and whether that was in this session

vars == <<monitor, serial_port, command_lock, pin_configs, analog_smoothing,
          event_queue, listeners, running, dispatch, delivered, tasks, files, arm,
          sequence_objects, sequences, active_sequences, runs, threads,
          link_in, link_out, call, rt_hist, err_hist, last_read>>

\* ------------------------------------------------------------------------
\* Helpers
\* ------------------------------------------------------------------------
\* sum(s), by halves.
RECURSIVE SeqSum(_)
SeqSum(s) ==
    IF Len(s) = 0 THEN 0
    ELSE IF Len(s) = 1 THEN s[1]
    ELSE LET half == Len(s) \div 2
         IN SeqSum(SubSeq(s, 1, half)) + SeqSum(SubSeq(s, half + 1, Len(s)))

Min(a, b) == IF a < b THEN a ELSE b
Max(a, b) == IF a > b THEN a ELSE b

LastN(s, n) == IF Len(s) <= n THEN s ELSE SubSeq(s, Len(s) - n + 1, Len(s))

Ramp(n) == [i \in 1..n |-> ReplyMs + (i % 2)]

EmptyMap == [x \in {} |-> 0]

\* ------------------------------------------------------------------------
\* Wire protocol: commands, response lines, link outcomes
\* ------------------------------------------------------------------------
Cmd(verb, pin, chan, arg) == [verb |-> verb, pin |-> pin, chan |-> chan, arg |-> arg]

Line(kind, val, csv) == [kind |-> kind, val |-> val, csv |-> csv]

Empty == Line("empty", 0, <<>>)
NotConnected == Line("Hardware not connected", 0, <<>>)
CommandError == Line("Command error", 0, <<>>)
Raised == Line("raised", 0, <<>>)

\* The lines the device answers to a command: the well-formed answers to the
\* verb, and "ERROR" for any line that is not of the expected shape.  A
\* "STATUS_BAD" line has the STATUS: prefix and a field that is no integer.
Replies(verb) ==
    {Line("ERROR", 0, <<>>)} \cup
    CASE verb \in {"PIN_MODE", "DIGITAL_WRITE"} -> {Line("OK", 0, <<>>)}
      [] verb = "DIGITAL_READ" -> {Line("num", v, <<>>) : v \in {0, 1}}
      [] verb = "ANALOG_READ" -> {Line("num", v, <<>>) : v \in RawSamples}
      [] verb = "GET_STATUS" -> {Line("STATUS", 0, <<0, 1>>), Line("STATUS_BAD", 0, <<>>)}
      [] OTHER -> {Line("OK", 0, <<>>)}

\* What the link does with one command: the device answers with a line, the
\* read times out (readline returns an empty line), or the write or the
\* read raises an exception.
IOs(verb) ==
    {[kind |-> "reply", reply |-> r, rt |-> ReplyMs] : r \in Replies(verb)}
    \cup {[kind |-> "timeout", reply |-> Empty, rt |-> TimeoutMs]}
    \cup {[kind |-> "exception", reply |-> Empty, rt |-> ReplyMs]}

NoIO == [kind |-> "none", reply |-> Empty, rt |-> 0]

\* ------------------------------------------------------------------------
\* HardwareMonitor
\* ------------------------------------------------------------------------
NewMonitor ==
    [state |-> DISCONNECTED,
     total_commands |-> 0,
     successful_commands |-> 0,
     error_count |-> 0,
     average_response_time |-> [sum |-> 0, n |-> 1],
     pin_states |-> <<>>,
     response_times |-> <<>>,
     error_log |-> <<>>]

update_response_time_nopop(m, response_time) ==
    LET appended == Append(m.response_times, response_time)
    IN [m EXCEPT !.response_times = appended,
                 !.average_response_time = [sum |-> SeqSum(appended), n |-> Len(appended)]]

update_response_time(m, response_time) ==
    LET appended == Append(m.response_times, response_time)
        kept == IF Len(appended) > MaxResponseTimes THEN Tail(appended) ELSE appended
    IN [m EXCEPT !.response_times = kept,
                 !.average_response_time = [sum |-> SeqSum(kept), n |-> Len(kept)]]

record_command(m, success) ==
    IF success
    THEN [m EXCEPT !.total_commands = @ + 1, !.successful_commands = @ + 1]
    ELSE [m EXCEPT !.total_commands = @ + 1, !.error_count = @ + 1]

ErrorEntry(m, error, context) == [error |-> error, context |-> context, state |-> m.state]

record_error(m, error, context) ==
    LET appended == Append(m.error_log, ErrorEntry(m, error, context))
    IN [m EXCEPT !.error_count = @ + 1,
                 !.error_log = IF Len(appended) > MaxErrorLog THEN Tail(appended) ELSE appended]

\* The score as the fraction num/den, den > 0.
\*   success_rate*100            = 100*s/t
\*   response_penalty            = min(20, max(0, (avg - 0.1)*100)), avg = sum/n ms
\*                               = min(200n, max(0, sum - 100n)) / (10n)
\*   error_penalty               = 30*e/max(1, t)
RawHealth(m) ==
    LET t == m.total_commands
        n == m.average_response_time.n
        penalty == Min(200 * n, Max(0, m.average_response_time.sum - 100 * n))
    IN [num |-> 1000 * n * m.successful_commands - t * penalty - 300 * n * m.error_count,
        den |-> 10 * n * t]

get_health_score_unclamped(m) ==
    IF m.total_commands = 0
    THEN [num |-> IF m.state = CONNECTED THEN 100 ELSE 0, den |-> 1]
    ELSE RawHealth(m)

get_health_score(m) ==
    IF m.total_commands = 0
    THEN [num |-> IF m.state = CONNECTED THEN 100 ELSE 0, den |-> 1]
    ELSE LET h == RawHealth(m)
         IN [num |-> Max(0, Min(100 * h.den, h.num)), den |-> h.den]

FracLess(a, b) == a.num * b.den < b.num * a.den
FracEq(a, b) == a.num * b.den = b.num * a.den

\* ------------------------------------------------------------------------
\* Events
\* ------------------------------------------------------------------------
Event(event_type, name, pin, chan, value, raw_value, flag) ==
    [event_type |-> event_type, name |-> name, pin |-> pin, chan |-> chan,
     value |-> value, raw_value |-> raw_value, flag |-> flag]

emit(w, event) == [w EXCEPT !.event_queue = Append(@, event)]

\* ------------------------------------------------------------------------
\* Results of the operations
\* ------------------------------------------------------------------------
Ret(kind, val, text) == [kind |-> kind, val |-> val, text |-> text]

NoRet == Ret("none", 0, "")
RetTrue == Ret("ok", 1, "True")
RetFalse == Ret("fail", 0, "False")
RetNone == Ret("fail", 0, "None")
RetEmptyStatus == Ret("fail", 0, "{}")
RetRaise == Ret("raise", 0, "")

\* The value send_command hands to a direct caller.
ResponseRet(r) ==
    IF r = Raised THEN RetRaise
    ELSE IF r \in {NotConnected, CommandError} THEN Ret("fail", 0, r.kind)
    ELSE Ret("ok", r.val, r.kind)

\* ------------------------------------------------------------------------
\* STM32HardwareInterface
\* ------------------------------------------------------------------------
NoSerial == [exists |-> FALSE, port |-> "", is_open |-> FALSE]
OpenSerial(port) == [exists |-> TRUE, port |-> port, is_open |-> TRUE]

is_connected_any_state(m, sp) == TRUE

is_connected(m, sp) == sp.exists /\ sp.is_open /\ m.state = CONNECTED

test_connection_any_reply(io) == io.kind = "reply"

\* The probe of connect: true iff a line starting with "STATUS:" is read.
test_connection(io) == io.kind = "reply" /\ io.reply.kind \in {"STATUS", "STATUS_BAD"}

\* connect(port): opened is whether serial.Serial(port) succeeded, io is
\* what the link does with the probe.
connect(w, port, opened, io) ==
    IF ~opened
    THEN [w EXCEPT !.monitor = record_error(@, "Connection failed", port),
                   !.ret = RetFalse]
    ELSE IF test_connection(io)
    THEN [w EXCEPT !.serial_port = OpenSerial(port),
                   !.monitor.state = CONNECTED,
                   !.sent = Append(@, Cmd("GET_STATUS", 0, "", "")),
                   !.ret = RetTrue]
    ELSE [w EXCEPT !.serial_port = [OpenSerial(port) EXCEPT !.is_open = FALSE],
                   !.sent = IF io.kind = "exception" THEN @
                            ELSE Append(@, Cmd("GET_STATUS", 0, "", "")),
                   !.ret = RetFalse]

disconnect(w) ==
    [w EXCEPT !.serial_port = IF @.exists /\ @.is_open THEN [@ EXCEPT !.is_open = FALSE] ELSE @,
              !.monitor.state = DISCONNECTED]

\* The except branch of send_command.
send_command_except_raise(w, command, io) == [w EXCEPT !.response = Raised]

send_command_except(w, command, io) ==
    [w EXCEPT !.monitor = record_error(
                              record_command(update_response_time(@, io.rt), FALSE),
                              "exception", command.verb),
              !.response = CommandError]

\* The try branch of send_command once readline has returned.
send_command_try(w, command, io) ==
    [w EXCEPT !.sent = Append(@, command),
              !.monitor = record_command(update_response_time(@, io.rt), TRUE),
              !.response = io.reply]

\* exchanges keeps every command send_command was called with and what the
\* call returned.
send_command(w, command, io) ==
    LET w1 == IF ~is_connected(w.monitor, w.serial_port)
              THEN [w EXCEPT !.response = NotConnected]
              ELSE IF ~(w.serial_port.exists /\ w.serial_port.is_open) \/ io.kind = "exception"
              THEN send_command_except(w, command, io)
              ELSE send_command_try(w, command, io)
    IN [w1 EXCEPT !.exchanges = Append(@, [command |-> command, response |-> w1.response])]

\* ------------------------------------------------------------------------
\* HardwareService
\* ------------------------------------------------------------------------
PinConfiguration(pin, mode, debounce_ms, smoothing) ==
    [pin_number |-> pin, mode |-> mode, debounce_ms |-> debounce_ms,
     smoothing_enabled |-> smoothing]

StateArg(state) == IF state = 1 THEN "1" ELSE "0"

configure_pin(w, pin, mode, debounce_ms, smoothing, io) ==
    LET w1 == send_command(w, Cmd("PIN_MODE", pin, "", mode), io)
    IN IF w1.response.kind = "OK"
       THEN [w1 EXCEPT !.pin_configs =
                           (pin :> PinConfiguration(pin, mode, debounce_ms, smoothing)) @@ @,
                       !.ret = RetTrue]
       ELSE [w1 EXCEPT !.ret = RetFalse]

digital_write_silent(w, pin, state, io1, io2) ==
    LET w1 == IF pin \notin DOMAIN w.pin_configs
              THEN configure_pin(w, pin, "OUTPUT", 50, TRUE, io1)
              ELSE w
        w2 == send_command(w1, Cmd("DIGITAL_WRITE", pin, "", StateArg(state)), io2)
    IN [w2 EXCEPT !.ret = IF w2.response.kind = "OK" THEN RetTrue ELSE RetFalse]

digital_write_always_configures(w, pin, state, io1, io2) ==
    LET w1 == configure_pin(w, pin, "OUTPUT", 50, TRUE, io1)
        w2 == send_command(w1, Cmd("DIGITAL_WRITE", pin, "", StateArg(state)), io2)
    IN IF w2.response.kind = "OK"
       THEN [emit(w2, Event("pin_state_changed", "", pin, "", state, 0, "digital"))
                EXCEPT !.ret = RetTrue]
       ELSE [w2 EXCEPT !.ret = RetFalse]

digital_write(w, pin, state, io1, io2) ==
    LET w1 == IF pin \notin DOMAIN w.pin_configs
              THEN configure_pin(w, pin, "OUTPUT", 50, TRUE, io1)
              ELSE w
        w2 == send_command(w1, Cmd("DIGITAL_WRITE", pin, "", StateArg(state)), io2)
    IN IF w2.response.kind = "OK"
       THEN [emit(w2, Event("pin_state_changed", "", pin, "", state, 0, "digital"))
                EXCEPT !.ret = RetTrue]
       ELSE [w2 EXCEPT !.ret = RetFalse]

digital_read(w, pin, io) ==
    LET w1 == send_command(w, Cmd("DIGITAL_READ", pin, "", ""), io)
        r == w1.response
    IN IF r.kind = "num" /\ r.val \in {0, 1}
       THEN [emit(w1, Event("pin_state_changed", "", pin, "", r.val, 0, "digital"))
                EXCEPT !.ret = Ret("ok", r.val, "state")]
       ELSE [w1 EXCEPT !.ret = RetNone]

\* int() of the double-precision value previous*0.7 + new_value*0.3.
IntOfSmoothed(previous, new_value) ==
    ((7 * previous + 3 * new_value) \div 10)
        - (IF <<previous, new_value>> \in FloatBelow THEN 1 ELSE 0)

apply_smoothing_swapped(values, new_value) ==
    LET smoothed == IntOfSmoothed(new_value, values[Len(values)])
        appended == Append(values, smoothed)
    IN [values |-> IF Len(appended) > smoothing_window THEN Tail(appended) ELSE appended,
        smoothed |-> smoothed]

\* Returns the updated window and int(smoothed).
apply_smoothing(values, new_value) ==
    LET smoothed == IntOfSmoothed(values[Len(values)], new_value)
        appended == Append(values, smoothed)
    IN [values |-> IF Len(appended) > smoothing_window THEN Tail(appended) ELSE appended,
        smoothed |-> smoothed]

analog_read(w, chan, io) ==
    LET w1 == send_command(w, Cmd("ANALOG_READ", 0, chan, ""), io)
        r == w1.response
    IN IF r.kind = "num"
       THEN LET known == chan \in DOMAIN w1.analog_smoothing
                sm == apply_smoothing(w1.analog_smoothing[chan], r.val)
                final_value == IF known THEN sm.smoothed ELSE r.val
                window == IF known THEN sm.values
                          ELSE [i \in 1..smoothing_window |-> r.val]
            IN [emit([w1 EXCEPT !.analog_smoothing = (chan :> window) @@ @],
                     Event("analog_value_changed", "", 0, chan, final_value, r.val, ""))
                   EXCEPT !.ret = Ret("ok", final_value, "value")]
       ELSE [w1 EXCEPT !.ret = RetNone]

\* A "STATUS_BAD" line has the STATUS: prefix and a field int() rejects:
\* the ValueError is caught and {} is returned.
get_status(w, io) ==
    LET w1 == send_command(w, Cmd("GET_STATUS", 0, "", ""), io)
        r == w1.response
    IN IF r.kind = "STATUS"
       THEN LET w2 == [w1 EXCEPT !.monitor.pin_states = r.csv]
                h == get_health_score(w2.monitor)
            IN [emit(w2, Event("system_status", "", 0, "", h.num, h.den, ""))
                   EXCEPT !.ret = Ret("ok", 0, "status")]
       ELSE [w1 EXCEPT !.ret = RetEmptyStatus]

\* ------------------------------------------------------------------------
\* State after construction
\* ------------------------------------------------------------------------
NoProbe == [opened |-> FALSE, io |-> "none", reply |-> Empty]

NoCall == [op |-> "none", name |-> "", file |-> "", run |-> 0, sent |-> <<>>,
           exchanges |-> <<>>, probe |-> NoProbe, io |-> "none", ret |-> NoRet]

NoResponse == [kind |-> "none", of |-> "", n |-> 0]

\* A caller of send_command: where it is in the call, how many calls it has
\* made, what its last completed call returned, and how many of its reads
\* timed out.
IdleThread == [pc |-> "idle", calls |-> 0, response |-> NoResponse, timeouts |-> 0]

EventTypes == {"pin_state_changed", "analog_value_changed", "system_status",
               "sequence_started", "sequence_completed", "hardware_error",
               "connection_established", "connection_lost"}

NoListeners == [event_type \in EventTypes |-> <<>>]

\* The subscriptions HardwareService makes when it is constructed.
ServiceListeners ==
    [NoListeners EXCEPT !["connection_established"] = <<"_on_connection_established">>,
                        !["connection_lost"] = <<"_on_connection_lost">>]

NoEvent == [event_type |-> "", n |-> 0]

\* The _process_events thread: where it is, the event it has taken and the
\* position of its iteration over the callbacks of the event's type.
Dispatcher(pc) == [pc |-> pc, event |-> NoEvent, index |-> 0]

\* RoboticArmBackend.__init__
NewArm ==
    [is_connected |-> FALSE,
     port_open |-> FALSE,
     running |-> FALSE,
     realtime_enabled |-> FALSE,
     total_commands |-> 0,
     successful_commands |-> 0,
     error_count |-> 0,
     current_positions |-> <<0, 0, 0, 0, 0, 0, 0>>,
     position_callbacks |-> <<>>,
     notified |-> <<>>,
     wire |-> <<>>,
     returned |-> <<>>,
     callers |-> [t \in {"poll", "caller"} |->
                     [pc |-> "idle", tmp |-> 0, calls |-> 0,
                      response |-> [kind |-> "line", chars |-> <<>>]]],
     exec |-> [pc |-> "idle", name |-> "", loop |-> FALSE, wp |-> 0, axis |-> 0,
               depth |-> 0, passes |-> 0, calls |-> 0, sent |-> <<>>]]

InitBase ==
    /\ monitor = NewMonitor
    /\ serial_port = NoSerial
    /\ command_lock = "free"
    /\ pin_configs = EmptyMap
    /\ analog_smoothing = EmptyMap
    /\ event_queue = <<>>
    /\ listeners = ServiceListeners
    /\ running = TRUE
    /\ dispatch = Dispatcher("get")
    /\ delivered = <<>>
    /\ tasks = EmptyMap
    /\ files = EmptyMap
    /\ arm = NewArm
    /\ sequence_objects = <<>>
    /\ sequences = EmptyMap
    /\ active_sequences = EmptyMap
    /\ runs = <<>>
    /\ threads = [t \in Threads |-> IdleThread]
    /\ link_in = <<>>
    /\ link_out = <<>>
    /\ call = NoCall
    /\ rt_hist = <<>>
    /\ err_hist = <<>>
    /\ last_read = EmptyMap

\* The part of the state the interface and the service operate on.
World ==
    [monitor |-> monitor, serial_port |-> serial_port, pin_configs |-> pin_configs,
     analog_smoothing |-> analog_smoothing, event_queue |-> event_queue,
     sent |-> <<>>, exchanges |-> <<>>, response |-> Empty, ret |-> NoRet]

\* The histories an operation leaves behind fit the bounds.
MonitorWithinBounds(w, commands) ==
    /\ w.monitor.total_commands <= commands
    /\ Len(w.monitor.error_log) <= MaxErrors

WithinBounds(w, commands) ==
    /\ MonitorWithinBounds(w, commands)
    /\ Len(w.event_queue) <= IF commands = MaxReads THEN MaxReads ELSE MaxQueue

\* What the link does with a command for verb; nothing to choose when the
\* interface is not connected.
LinkIOs(verb) == IF is_connected(monitor, serial_port) THEN IOs(verb) ELSE {NoIO}

CommitState(w) ==
    /\ monitor' = w.monitor
    /\ serial_port' = w.serial_port
    /\ pin_configs' = w.pin_configs
    /\ analog_smoothing' = w.analog_smoothing
    /\ event_queue' = w.event_queue

CallRecord(w, op, run, io) ==
    [op |-> op, name |-> "", file |-> "", run |-> run, sent |-> w.sent,
     exchanges |-> w.exchanges, probe |-> NoProbe,
     io |-> IF w.response = NotConnected THEN "none" ELSE io.kind,
     ret |-> w.ret]

Commit(w, op, run, io) ==
    /\ CommitState(w)
    /\ call' = CallRecord(w, op, run, io)

EndSession(reads) == [c \in DOMAIN reads |-> [reads[c] EXCEPT !.in_session = FALSE]]

engine_vars == <<sequence_objects, sequences, active_sequences, runs>>
channel_vars == <<command_lock, threads, link_in, link_out>>
hist_vars == <<rt_hist, err_hist>>
event_vars == <<listeners, running, dispatch, delivered>>
store_vars == <<tasks, files, arm>>

\* ------------------------------------------------------------------------
\* Operations called one at a time (Spec)
\* ------------------------------------------------------------------------
Connect ==
    \E port \in Ports, opened \in BOOLEAN, io \in IOs("GET_STATUS") :
        /\ LET w == connect(World, port, opened, io)
           IN /\ WithinBounds(w, MaxCommands)
              /\ Commit(w, "connect", 0, io)
              /\ last_read' = IF w.ret = RetTrue THEN EndSession(last_read) ELSE last_read
        /\ UNCHANGED <<engine_vars, channel_vars, hist_vars, event_vars, store_vars>>

Disconnect ==
    /\ Commit(disconnect(World), "disconnect", 0, NoIO)
    /\ last_read' = EndSession(last_read)
    /\ UNCHANGED <<engine_vars, channel_vars, hist_vars, event_vars, store_vars>>

SendCommand ==
    \E io \in LinkIOs("GET_STATUS") :
        /\ LET w == send_command(World, Cmd("GET_STATUS", 0, "", ""), io)
           IN WithinBounds(w, MaxCommands) /\ Commit([w EXCEPT !.ret = ResponseRet(w.response)], "send_command", 0, io)
        /\ UNCHANGED <<engine_vars, channel_vars, hist_vars, last_read, event_vars, store_vars>>

ConfigurePin ==
    \E pin \in Pins, mode \in Modes, io \in LinkIOs("PIN_MODE") :
        /\ LET w == configure_pin(World, pin, mode, 50, TRUE, io)
           IN WithinBounds(w, MaxCommands) /\ Commit(w, "configure_pin", 0, io)
        /\ UNCHANGED <<engine_vars, channel_vars, hist_vars, last_read, event_vars, store_vars>>

DigitalWrite ==
    \E pin \in Pins, state \in {0, 1}, io1 \in LinkIOs("PIN_MODE"), io2 \in LinkIOs("DIGITAL_WRITE") :
        /\ LET w == digital_write(World, pin, state, io1, io2)
           IN WithinBounds(w, MaxCommands) /\ Commit(w, "digital_write", 0, io2)
        /\ UNCHANGED <<engine_vars, channel_vars, hist_vars, last_read, event_vars, store_vars>>

DigitalRead ==
    \E pin \in Pins, io \in LinkIOs("DIGITAL_READ") :
        /\ LET w == digital_read(World, pin, io)
           IN WithinBounds(w, MaxCommands) /\ Commit(w, "digital_read", 0, io)
        /\ UNCHANGED <<engine_vars, channel_vars, hist_vars, last_read, event_vars, store_vars>>

AnalogReadUpTo(commands) ==
    \E chan \in Channels, io \in LinkIOs("ANALOG_READ") :
        /\ LET w == analog_read(World, chan, io)
           IN /\ WithinBounds(w, commands)
              /\ Commit(w, "analog_read", 0, io)
              /\ last_read' = IF w.ret.kind = "ok"
                              THEN (chan :> [value |-> w.ret.val, in_session |-> TRUE]) @@ last_read
                              ELSE last_read
        /\ UNCHANGED <<engine_vars, channel_vars, hist_vars, event_vars, store_vars>>

AnalogRead == AnalogReadUpTo(MaxCommands)

AnalogReads == AnalogReadUpTo(MaxReads)

GetStatus ==
    \E io \in LinkIOs("GET_STATUS") :
        /\ LET w == get_status(World, io)
           IN WithinBounds(w, MaxCommands) /\ Commit(w, "get_status", 0, io)
        /\ UNCHANGED <<engine_vars, channel_vars, hist_vars, last_read, event_vars, store_vars>>

Init == InitBase

Next ==
    \/ Connect
    \/ Disconnect
    \/ SendCommand
    \/ ConfigurePin
    \/ DigitalWrite
    \/ DigitalRead
    \/ AnalogRead
    \/ GetStatus

Spec == Init /\ [][Next]_vars

\* Analog reads over one or more sessions (SpecAnalog).
NextAnalog ==
    \/ Connect
    \/ Disconnect
    \/ AnalogReads

SpecAnalog == Init /\ [][NextAnalog]_vars

\* ------------------------------------------------------------------------
\* Concurrent callers of send_command within one session (SpecChannel).
\* A call is the steps of the code: the connection check, the acquisition
\* of command_lock, the write, and the readline with the monitor update
\* and the release.  The device answers the commands in the order written.
\* ------------------------------------------------------------------------
lock_free_always(lock) == TRUE

\* "with self.command_lock" is entered only while no caller holds the lock.
lock_free(lock) == lock = "free"

Finish(t, response, timed_out) ==
    /\ threads' = [threads EXCEPT ![t].pc = "idle",
                                  ![t].response = response,
                                  ![t].timeouts = @ + (IF timed_out THEN 1 ELSE 0)]
    /\ command_lock' = "free"

\* The except branch, entered from the write or from the readline.
ThreadExcept(t) ==
    /\ monitor' = send_command_except(World, Cmd("GET_STATUS", 0, "", ""),
                                      [kind |-> "exception", reply |-> Empty, rt |-> ReplyMs]).monitor
    /\ Finish(t, [kind |-> "error", of |-> "", n |-> 0], FALSE)

ThreadCall ==
    \E t \in Threads :
        /\ threads[t].pc = "idle"
        /\ threads[t].calls < MaxThreadCalls
        /\ threads' = [threads EXCEPT
                          ![t].calls = @ + 1,
                          ![t].pc = IF is_connected(monitor, serial_port) THEN "lock" ELSE "idle",
                          ![t].response = IF is_connected(monitor, serial_port) THEN @
                                          ELSE [kind |-> "not connected", of |-> "", n |-> 0]]
        /\ UNCHANGED <<monitor, serial_port, command_lock, pin_configs, analog_smoothing,
                       event_queue, engine_vars, link_in, link_out, call, hist_vars, last_read, event_vars, store_vars>>

ThreadAcquire ==
    \E t \in Threads :
        /\ threads[t].pc = "lock"
        /\ lock_free(command_lock)
        /\ command_lock' = t
        /\ threads' = [threads EXCEPT ![t].pc = "write"]
        /\ UNCHANGED <<monitor, serial_port, pin_configs, analog_smoothing, event_queue,
                       engine_vars, link_in, link_out, call, hist_vars, last_read, event_vars, store_vars>>

ThreadWrite ==
    \E t \in Threads :
        /\ threads[t].pc = "write"
        /\ IF serial_port.is_open
           THEN /\ link_in' = Append(link_in, [of |-> t, n |-> threads[t].calls])
                /\ threads' = [threads EXCEPT ![t].pc = "read"]
                /\ UNCHANGED <<monitor, command_lock>>
           ELSE /\ ThreadExcept(t)
                /\ UNCHANGED link_in
        /\ UNCHANGED <<serial_port, pin_configs, analog_smoothing, event_queue,
                       engine_vars, link_out, call, hist_vars, last_read, event_vars, store_vars>>

DeviceReply ==
    /\ link_in # <<>>
    /\ link_in' = Tail(link_in)
    /\ link_out' = Append(link_out, Head(link_in))
    /\ UNCHANGED <<monitor, serial_port, command_lock, pin_configs, analog_smoothing,
                   event_queue, engine_vars, threads, call, hist_vars, last_read, event_vars, store_vars>>

\* readline returns the oldest unread line, or an empty line after the
\* timeout if there is none, or raises if the port has been closed.
ThreadRead ==
    \E t \in Threads :
        /\ threads[t].pc = "read"
        /\ IF ~serial_port.is_open
           THEN ThreadExcept(t) /\ UNCHANGED link_out
           ELSE IF link_out # <<>>
           THEN /\ monitor' = send_command_try(World, Cmd("GET_STATUS", 0, "", ""),
                                  [kind |-> "reply", reply |-> Empty, rt |-> ReplyMs]).monitor
                /\ Finish(t, [kind |-> "line", of |-> Head(link_out).of, n |-> Head(link_out).n], FALSE)
                /\ link_out' = Tail(link_out)
           ELSE /\ monitor' = send_command_try(World, Cmd("GET_STATUS", 0, "", ""),
                                  [kind |-> "timeout", reply |-> Empty, rt |-> TimeoutMs]).monitor
                /\ Finish(t, [kind |-> "empty", of |-> "", n |-> 0], TRUE)
                /\ UNCHANGED link_out
        /\ UNCHANGED <<serial_port, pin_configs, analog_smoothing, event_queue,
                       engine_vars, link_in, call, hist_vars, last_read, event_vars, store_vars>>

\* The session is opened once, before any command is written.
ChannelConnect == ~serial_port.exists /\ Connect

NextChannel ==
    \/ ChannelConnect
    \/ Disconnect
    \/ ThreadCall
    \/ ThreadAcquire
    \/ ThreadWrite
    \/ DeviceReply
    \/ ThreadRead

SpecChannel == Init /\ [][NextChannel]_vars

\* ------------------------------------------------------------------------
\* AutomationEngine (SpecEngine).  create_sequence, start_sequence and
\* stop_sequence are called one at a time; every _run_sequence thread
\* advances step by step, interleaved with them and with the other runs.
\* The hardware stays disconnected.
\* ------------------------------------------------------------------------
Names == {"blink"}

Step(action, pin, value) == [action |-> action, pin |-> pin, value |-> value]

StepLists ==
    {<<>>,
     <<Step("DIGITAL_WRITE", "13", 1), Step("ANALOG_READ", "A0", 0), Step("WAIT", "", 1)>>}

\* The pin strings for which isdigit() holds, with their int().
PinNumbers == ("13" :> 13)

Sequence(name, steps, loop) ==
    [name |-> name, steps |-> steps, loop |-> loop, enabled |-> TRUE, current_step |-> 0]

\* A _run_sequence thread: its sequence dict (0 before it has read it), where
\* it is, the step it has chosen, how many steps it has executed and how
\* often it has slept for the interval.
NewRun(name) ==
    [name |-> name, sequence |-> 0, pc |-> "loop", cur |-> 0, executed |-> 0, sleeps |-> 0]

EngineCall(op, name, run, ret) ==
    [NoCall EXCEPT !.op = op, !.name = name, !.run = run, !.ret = ret]

SequenceEvent(event_type, name, flag) == Event(event_type, name, 0, "", 0, 0, flag)

stop_sequence_keeps_name(active, queue, name) ==
    IF name \in DOMAIN active
    THEN [active_sequences |-> active,
          event_queue |-> Append(queue, SequenceEvent("sequence_completed", name, "stopped")),
          ret |-> RetTrue]
    ELSE [active_sequences |-> active, event_queue |-> queue, ret |-> RetFalse]

stop_sequence_always_emits(active, queue, name) ==
    [active_sequences |-> [n \in DOMAIN active \ {name} |-> active[n]],
     event_queue |-> Append(queue, SequenceEvent("sequence_completed", name, "stopped")),
     ret |-> IF name \in DOMAIN active THEN RetTrue ELSE RetFalse]

\* The active_sequences and event_queue stop_sequence leaves behind.
stop_sequence(active, queue, name) ==
    IF name \in DOMAIN active
    THEN [active_sequences |-> [n \in DOMAIN active \ {name} |-> active[n]],
          event_queue |-> Append(queue, SequenceEvent("sequence_completed", name, "stopped")),
          ret |-> RetTrue]
    ELSE [active_sequences |-> active, event_queue |-> queue, ret |-> RetFalse]

run_while_enabled(active, sequence, name) == sequence.enabled

\* while name in self.active_sequences and sequence["enabled"]
run_while(active, sequence, name) == name \in DOMAIN active /\ sequence.enabled

advance_cursor_twice(sequence) == [sequence EXCEPT !.current_step = @ + 2]

\* sequence["current_step"] += 1
advance_cursor(sequence) == [sequence EXCEPT !.current_step = @ + 1]

\* ret keeps what the service call returned; _execute_step discards it.
execute_step(w, step, io1, io2) ==
    IF step.action = "DIGITAL_WRITE"
    THEN IF step.pin \in DOMAIN PinNumbers
         THEN digital_write(w, PinNumbers[step.pin], step.value, io1, io2)
         ELSE w
    ELSE IF step.action = "ANALOG_READ"
    THEN analog_read(w, step.pin, io2)
    ELSE w

CreateSequenceFrom(lists, created) ==
    \E name \in Names, steps \in lists, loop \in BOOLEAN :
        /\ Len(sequence_objects) < created
        /\ sequence_objects' = Append(sequence_objects, Sequence(name, steps, loop))
        /\ sequences' = (name :> Len(sequence_objects) + 1) @@ sequences
        /\ event_queue' = Append(event_queue, SequenceEvent("sequence_started", name, ""))
        /\ call' = EngineCall("create_sequence", name, 0, RetTrue)
        /\ UNCHANGED <<monitor, serial_port, pin_configs, analog_smoothing, active_sequences,
                       runs, channel_vars, hist_vars, last_read, event_vars, store_vars>>

CreateSequenceUpTo(created) == CreateSequenceFrom(StepLists, created)

CreateSequence == CreateSequenceUpTo(MaxSequences)

CreateSequences == CreateSequenceUpTo(MaxCreates)

StartSequenceUpTo(started) ==
    \E name \in Names :
        /\ Len(runs) < started
        /\ IF name \notin DOMAIN sequences
           THEN /\ call' = EngineCall("start_sequence", name, 0, RetFalse)
                /\ UNCHANGED <<sequence_objects, active_sequences, runs, event_queue>>
           ELSE IF ~sequence_objects[sequences[name]].enabled
           THEN /\ call' = EngineCall("start_sequence", name, 0, RetFalse)
                /\ UNCHANGED <<sequence_objects, active_sequences, runs, event_queue>>
           ELSE LET stopped == stop_sequence(active_sequences, event_queue, name)
                IN /\ event_queue' = stopped.event_queue
                   /\ sequence_objects' =
                          [sequence_objects EXCEPT ![sequences[name]].current_step = 0]
                   /\ runs' = Append(runs, NewRun(name))
                   /\ active_sequences' = (name :> Len(runs) + 1) @@ stopped.active_sequences
                   /\ call' = EngineCall("start_sequence", name, Len(runs) + 1, RetTrue)
        /\ UNCHANGED <<monitor, serial_port, pin_configs, analog_smoothing, sequences,
                       channel_vars, hist_vars, last_read, event_vars, store_vars>>

StartSequence == StartSequenceUpTo(MaxRuns)

StopSequence ==
    \E name \in Names :
        LET stopped == stop_sequence(active_sequences, event_queue, name)
        IN /\ active_sequences' = stopped.active_sequences
           /\ event_queue' = stopped.event_queue
           /\ call' = EngineCall("stop_sequence", name, 0, stopped.ret)
           /\ UNCHANGED <<monitor, serial_port, pin_configs, analog_smoothing, sequence_objects,
                          sequences, runs, channel_vars, hist_vars, last_read, event_vars, store_vars>>

\* One pass of a run from the top of its loop to its next step: the first
\* pass starts with sequence = self.sequences[name]; the loop condition is
\* evaluated and the step chosen (steps[0] of an empty list raises
\* IndexError, which ends the thread), or the loop is left, the name is
\* removed and the completion is announced.
RunLoopIf(more) ==
    \E r \in {x \in DOMAIN runs : runs[x].pc = "loop"} :
        LET name == runs[r].name
            id == IF runs[r].sequence = 0 THEN sequences[name] ELSE runs[r].sequence
            sequence == sequence_objects[id]
            steps == sequence.steps
            wrap == sequence.current_step >= Len(steps)
            leave == \/ ~run_while(active_sequences, sequence, name)
                     \/ wrap /\ ~sequence.loop
        IN /\ ~(~leave /\ wrap /\ ~more)
           /\ IF leave
              THEN /\ runs' = [runs EXCEPT ![r].sequence = id, ![r].pc = "done"]
                   /\ active_sequences' = [n \in DOMAIN active_sequences \ {name} |->
                                              active_sequences[n]]
                   /\ event_queue' = Append(event_queue,
                                            SequenceEvent("sequence_completed", name, "completed"))
                   /\ UNCHANGED sequence_objects
              ELSE /\ runs' = [runs EXCEPT
                                  ![r].sequence = id,
                                  ![r].cur = IF wrap THEN 0 ELSE sequence.current_step,
                                  ![r].pc = IF steps = <<>> THEN "crashed" ELSE "exec"]
                   /\ sequence_objects' =
                          [sequence_objects EXCEPT ![id].current_step = IF wrap THEN 0 ELSE @]
                   /\ UNCHANGED <<active_sequences, event_queue>>
           /\ UNCHANGED <<monitor, serial_port, pin_configs, analog_smoothing, sequences,
                          channel_vars, call, hist_vars, last_read, event_vars, store_vars>>

RunLoop == RunLoopIf(TRUE)

\* _execute_step(step), sequence["current_step"] += 1 and the sleep.
RunExecIf(within) ==
    \E r \in {x \in DOMAIN runs : runs[x].pc = "exec"}, io1 \in LinkIOs("PIN_MODE") :
        LET sequence == sequence_objects[runs[r].sequence]
            step == sequence.steps[runs[r].cur + 1]
            verb == IF step.action = "ANALOG_READ" THEN "ANALOG_READ" ELSE "DIGITAL_WRITE"
        IN \E io2 \in LinkIOs(verb) :
            LET w == execute_step(World, step, io1, io2)
            IN /\ within
               /\ MonitorWithinBounds(w, MaxCommands)
               /\ Commit(w, "execute_step", r, io2)
               /\ last_read' = IF step.action = "ANALOG_READ" /\ w.ret.kind = "ok"
                               THEN (step.pin :> [value |-> w.ret.val, in_session |-> TRUE])
                                        @@ last_read
                               ELSE last_read
               /\ sequence_objects' =
                      [sequence_objects EXCEPT ![runs[r].sequence] = advance_cursor(@)]
               /\ runs' = [runs EXCEPT
                               ![r].pc = "loop",
                               ![r].executed = @ + 1,
                               ![r].sleeps = @ + 1]
               /\ UNCHANGED <<sequences, active_sequences, channel_vars, hist_vars, event_vars,
                              store_vars>>

\* The steps executed by all the runs.
ExecutedSteps == SeqSum([x \in DOMAIN runs |-> runs[x].executed])

RunExec == RunExecIf(ExecutedSteps < MaxSteps)

NextEngine ==
    \/ CreateSequence
    \/ StartSequence
    \/ StopSequence
    \/ RunLoop
    \/ RunExec

SpecEngine == Init /\ [][NextEngine]_vars

\* The engine with a name created more than once (SpecCatalog).
NextCatalog ==
    \/ CreateSequences
    \/ StartSequence
    \/ StopSequence
    \/ RunLoop
    \/ RunExec

SpecCatalog == Init /\ [][NextCatalog]_vars

\* Sequences with malformed steps, run on a connected interface (SpecSteps):
\* an unknown action, a step without fields (step.get gives "", "" and 0),
\* a DIGITAL_WRITE whose pin is not a number and an ANALOG_READ without a
\* pin, each followed or preceded by a well-formed step.
Actions == {"DIGITAL_WRITE", "ANALOG_READ", "WAIT"}

Malformed(step) ==
    \/ step.action \notin Actions
    \/ step.action = "DIGITAL_WRITE" /\ step.pin \notin DOMAIN PinNumbers
    \/ step.action = "ANALOG_READ" /\ step.pin = ""

MalformedLists ==
    {<<Step("BLINK", "13", 1), Step("DIGITAL_WRITE", "13", 1)>>,
     <<Step("DIGITAL_WRITE", "A0", 1), Step("", "", 0)>>,
     <<Step("ANALOG_READ", "", 0), Step("DIGITAL_WRITE", "13", 1)>>}

CreateMalformedSequence == CreateSequenceFrom(MalformedLists, MaxSequences)

NextSteps ==
    \/ ChannelConnect
    \/ CreateMalformedSequence
    \/ StartSequence
    \/ RunLoop
    \/ RunExec

SpecSteps == Init /\ [][NextSteps]_vars

\* The engine with runs that execute all their steps (SpecRuns).  A looping
\* run wraps while fewer than MaxLoopSteps steps have been executed.  Every
\* _run_sequence thread is scheduled, and its steps and sleeps return.
RunLists == {<<Step("DIGITAL_WRITE", "13", 1), Step("WAIT", "", 1)>>}

CreateRunSequence == CreateSequenceFrom(RunLists, MaxSequences)

StartRun == StartSequenceUpTo(MaxLiveRuns)

RunLoopWhileRoom == RunLoopIf(ExecutedSteps < MaxLoopSteps)

RunExecAny == RunExecIf(TRUE)

NextRuns ==
    \/ CreateRunSequence
    \/ StartRun
    \/ StopSequence
    \/ RunLoopWhileRoom
    \/ RunExecAny

SpecRuns ==
    /\ Init
    /\ [][NextRuns]_vars
    /\ WF_vars(RunLoopWhileRoom)
    /\ WF_vars(RunExecAny)

\* ------------------------------------------------------------------------
\* BackendManager (SpecManager): connect_hardware and disconnect_hardware.
\* ------------------------------------------------------------------------
ConnectionEstablished(port) == Event("connection_established", port, 0, "", 0, 0, "")
HardwareError(port) == Event("hardware_error", port, 0, "", 0, 0, "Connection failed")
ConnectionLost == Event("connection_lost", "", 0, "", 0, 0, "")

\* configure_pin(pin, "OUTPUT") for the default pins; ios gives what the
\* link does with each PIN_MODE.
RECURSIVE initialize_default_pins(_, _, _)
initialize_default_pins(w, pins, ios) ==
    IF pins = {} THEN w
    ELSE LET pin == CHOOSE p \in pins : \A q \in pins : p <= q
         IN initialize_default_pins(configure_pin(w, pin, "OUTPUT", 50, TRUE, ios[pin]),
                                    pins \ {pin}, ios)

connect_hardware(w, port, opened, io, ios) ==
    LET w1 == connect(w, port, opened, io)
    IN IF w1.ret = RetTrue
       THEN [initialize_default_pins(emit(w1, ConnectionEstablished(port)), Pins, ios)
                EXCEPT !.ret = RetTrue]
       ELSE [emit(w1, HardwareError(port)) EXCEPT !.ret = RetFalse]

\* self.active_sequences is not an attribute of BackendManager: the first
\* statement raises AttributeError and nothing else is executed.
disconnect_hardware(w) == [w EXCEPT !.ret = RetRaise]

ConnectHardwareUpTo(commands) ==
    \E port \in Ports, opened \in BOOLEAN, io \in IOs("GET_STATUS"),
       ios \in [Pins -> IOs("PIN_MODE")] :
        /\ LET w == connect_hardware(World, port, opened, io, ios)
           IN /\ MonitorWithinBounds(w, commands)
              /\ Len(w.event_queue) <= MaxEvents
              /\ CommitState(w)
              /\ call' = [CallRecord(w, "connect_hardware", 0, io) EXCEPT
                              !.probe = [opened |-> opened, io |-> io.kind, reply |-> io.reply]]
              /\ last_read' = IF w.ret = RetTrue THEN EndSession(last_read) ELSE last_read
        /\ UNCHANGED <<engine_vars, channel_vars, hist_vars, event_vars, store_vars>>

ConnectHardware == ConnectHardwareUpTo(MaxCommands)

DisconnectHardware ==
    /\ Commit(disconnect_hardware(World), "disconnect_hardware", 0, NoIO)
    /\ UNCHANGED <<engine_vars, channel_vars, hist_vars, last_read, event_vars, store_vars>>

NextManager ==
    \/ ConnectHardware
    \/ DisconnectHardware
    \/ Disconnect

SpecManager == Init /\ [][NextManager]_vars

\* The manager with sequences created, started and stopped between its
\* calls (SpecShutdown).
NextShutdown ==
    \/ ConnectHardware
    \/ DisconnectHardware
    \/ CreateSequence
    \/ StartSequence
    \/ StopSequence

SpecShutdown == Init /\ [][NextShutdown]_vars

\* ------------------------------------------------------------------------
\* EventManager (SpecEvents): subscribe, emit and stop are called while the
\* _process_events thread, started by BackendManager.__init__, takes the
\* events and calls the callbacks.  A callback returns or raises an
\* Exception.
\* ------------------------------------------------------------------------
DispatchTypes == {"pin_state_changed", "system_status"}

Handlers == {"h1", "h2"}

Taken == {j \in DOMAIN delivered : delivered[j].kind = "get"}

\* The events emitted so far are numbered in the order of emit.
Emitted == Cardinality(Taken) + Len(event_queue)

queue_get_last(queue) ==
    [event |-> queue[Len(queue)], rest |-> SubSeq(queue, 1, Len(queue) - 1)]

\* event_queue.get(): the oldest event of the queue.
queue_get(queue) == [event |-> Head(queue), rest |-> Tail(queue)]

after_callback_unguarded(d, raised) ==
    IF raised THEN [d EXCEPT !.pc = "get"] ELSE [d EXCEPT !.index = @ + 1]

\* The thread after a callback has returned or raised: the inner try
\* catches the Exception and the iteration goes on.
after_callback(d, raised) == [d EXCEPT !.index = @ + 1]

\* The callbacks subscribed so far to the types of DispatchTypes.
Subscribed == SeqSum([j \in 1..2 |->
    Len(listeners[IF j = 1 THEN "pin_state_changed" ELSE "system_status"])])

Subscribe ==
    \E event_type \in DispatchTypes, callback \in Handlers :
        /\ Subscribed < MaxListeners
        /\ listeners' = [listeners EXCEPT ![event_type] = Append(@, callback)]
        /\ UNCHANGED <<monitor, serial_port, pin_configs, analog_smoothing, event_queue,
                       running, dispatch, delivered, engine_vars, channel_vars, call,
                       hist_vars, last_read, store_vars>>

Emit ==
    \E event_type \in DispatchTypes :
        /\ Emitted < MaxEmits
        /\ event_queue' = emit(World, Event(event_type, "", 0, "", Emitted + 1, 0, "")).event_queue
        /\ UNCHANGED <<monitor, serial_port, pin_configs, analog_smoothing, event_vars,
                       engine_vars, channel_vars, call, hist_vars, last_read, store_vars>>

\* stop(): the thread leaves its loop at its next test of running.
Stop ==
    /\ running
    /\ running' = FALSE
    /\ UNCHANGED <<monitor, serial_port, pin_configs, analog_smoothing, event_queue,
                   listeners, dispatch, delivered, engine_vars, channel_vars, call,
                   hist_vars, last_read, store_vars>>

DispatchGet ==
    /\ dispatch.pc = "get"
    /\ running
    /\ event_queue # <<>>
    /\ LET got == queue_get(event_queue)
           event == [event_type |-> got.event.event_type, n |-> got.event.value]
       IN /\ event_queue' = got.rest
          /\ dispatch' = [pc |-> "call", event |-> event, index |-> 1]
          /\ delivered' = Append(delivered, [kind |-> "get", n |-> event.n,
                                             event_type |-> event.event_type,
                                             callback |-> "", index |-> 0, raised |-> FALSE])
    /\ UNCHANGED <<monitor, serial_port, pin_configs, analog_smoothing, listeners, running,
                   engine_vars, channel_vars, call, hist_vars, last_read, store_vars>>

DispatchCall ==
    \E raised \in BOOLEAN :
        LET callbacks == listeners[dispatch.event.event_type]
        IN /\ dispatch.pc = "call"
           /\ dispatch.index <= Len(callbacks)
           /\ dispatch' = after_callback(dispatch, raised)
           /\ delivered' = Append(delivered, [kind |-> "call", n |-> dispatch.event.n,
                                              event_type |-> dispatch.event.event_type,
                                              callback |-> callbacks[dispatch.index],
                                              index |-> dispatch.index, raised |-> raised])
           /\ UNCHANGED <<monitor, serial_port, pin_configs, analog_smoothing, event_queue,
                          listeners, running, engine_vars, channel_vars, call, hist_vars,
                          last_read, store_vars>>

\* The iteration is over: task_done(), back to the test of running.
DispatchDone ==
    /\ dispatch.pc = "call"
    /\ dispatch.index > Len(listeners[dispatch.event.event_type])
    /\ dispatch' = Dispatcher("get")
    /\ delivered' = Append(delivered, [kind |-> "done", n |-> dispatch.event.n,
                                       event_type |-> dispatch.event.event_type,
                                       callback |-> "",
                                       index |-> Len(listeners[dispatch.event.event_type]),
                                       raised |-> FALSE])
    /\ UNCHANGED <<monitor, serial_port, pin_configs, analog_smoothing, event_queue,
                   listeners, running, engine_vars, channel_vars, call, hist_vars, last_read, store_vars>>

DispatchExit ==
    /\ dispatch.pc = "get"
    /\ ~running
    /\ dispatch' = Dispatcher("exited")
    /\ UNCHANGED <<monitor, serial_port, pin_configs, analog_smoothing, event_queue,
                   listeners, running, delivered, engine_vars, channel_vars, call,
                   hist_vars, last_read, store_vars>>

NextEvents ==
    \/ Subscribe
    \/ Emit
    \/ Stop
    \/ DispatchGet
    \/ DispatchCall
    \/ DispatchDone
    \/ DispatchExit

SpecEvents == Init /\ [][NextEvents]_vars

\* Events emitted before stop() only (SpecStop).
EmitWhileRunning == running /\ Emit

NextStop ==
    \/ Subscribe
    \/ EmitWhileRunning
    \/ Stop
    \/ DispatchGet
    \/ DispatchCall
    \/ DispatchDone
    \/ DispatchExit

SpecStop == Init /\ [][NextStop]_vars

\* list.remove(x): the list without the first x, or the list as it is when
\* x is not in it (the ValueError is caught).
list_remove(list, x) ==
    IF \E i \in DOMAIN list : list[i] = x
    THEN LET i == CHOOSE j \in DOMAIN list :
                      list[j] = x /\ \A k \in 1..(j - 1) : list[k] # x
         IN SubSeq(list, 1, i - 1) \o SubSeq(list, i + 1, Len(list))
    ELSE list

\* unsubscribe(event_type, callback), called by another thread or by a
\* callback: the for loop of _process_events goes on over the same list
\* object with the index it has reached.
Unsubscribe ==
    \E event_type \in DispatchTypes, callback \in Handlers :
        /\ listeners' = [listeners EXCEPT ![event_type] = list_remove(@, callback)]
        /\ UNCHANGED <<monitor, serial_port, pin_configs, analog_smoothing, event_queue,
                       running, dispatch, delivered, engine_vars, channel_vars, call,
                       hist_vars, last_read, store_vars>>

\* Callbacks are subscribed between dispatches and unsubscribed at any
\* time (SpecUnsubscribe).
SubscribeBetween == dispatch.pc = "get" /\ Subscribe

NextUnsubscribe ==
    \/ SubscribeBetween
    \/ Unsubscribe
    \/ Emit
    \/ DispatchGet
    \/ DispatchCall
    \/ DispatchDone

SpecUnsubscribe == Init /\ [][NextUnsubscribe]_vars

\* The thread is scheduled: it polls the queue every 0.1 s while running,
\* and a callback returns or raises.
SpecEventsLive ==
    /\ SpecEvents
    /\ WF_vars(DispatchGet)
    /\ WF_vars(DispatchCall)
    /\ WF_vars(DispatchDone)

\* ------------------------------------------------------------------------
\* A backend session (SpecSession): connect_hardware, disconnect_hardware
\* and cleanup, pins configured and channels read in between, and the
\* _process_events thread calling the callbacks HardwareService subscribed.
\* ------------------------------------------------------------------------
config_file == "backend_config.json"

\* The pin of a key of the "pin_configs" object: json.dump writes the int
\* keys as strings, load_configuration reads them back with int().
PinKeys == ("13" :> 13)

PinKey(pin) == CHOOSE k \in DOMAIN PinKeys : PinKeys[k] = pin

\* The document save_configuration hands to json.dump.
config_document(configs, names, objects) ==
    [pin_configs |-> [k \in {PinKey(p) : p \in DOMAIN configs} |->
                         [mode |-> configs[PinKeys[k]].mode,
                          debounce_ms |-> configs[PinKeys[k]].debounce_ms,
                          smoothing_enabled |-> configs[PinKeys[k]].smoothing_enabled]],
     sequences |-> [n \in DOMAIN names |-> objects[names[n]]],
     settings |-> [smoothing_window |-> smoothing_window]]

\* _on_connection_established: configure_pin(pin, config.mode) for the
\* items of pin_configs, with the default debounce_ms and smoothing.
RECURSIVE on_connection_established(_, _, _)
on_connection_established(w, pins, ios) ==
    IF pins = {} THEN w
    ELSE LET pin == CHOOSE p \in pins : \A q \in pins : p <= q
         IN on_connection_established(
                configure_pin(w, pin, w.pin_configs[pin].mode, 50, TRUE, ios[pin]),
                pins \ {pin}, ios)

on_connection_lost(w) == [w EXCEPT !.analog_smoothing = EmptyMap]

\* callback(event) for the callbacks of HardwareService.
service_callback(w, callback, ios) ==
    IF callback = "_on_connection_established"
    THEN on_connection_established(w, DOMAIN w.pin_configs, ios)
    ELSE IF callback = "_on_connection_lost"
    THEN on_connection_lost(w)
    ELSE w

\* cleanup() up to save_configuration: is_connected() and disconnect().
cleanup(w) == IF is_connected(w.monitor, w.serial_port) THEN disconnect(w) ELSE w

SessionConnect ==
    /\ ~is_connected(monitor, serial_port)
    /\ Emitted < MaxEvents
    /\ ConnectHardwareUpTo(MaxSession)

ConfigurePinSettingsUpTo(commands) ==
    \E pin \in Pins, mode \in Modes, debounce_ms \in {50, 10}, smoothing \in BOOLEAN,
       io \in LinkIOs("PIN_MODE") :
        /\ LET w == configure_pin(World, pin, mode, debounce_ms, smoothing, io)
           IN MonitorWithinBounds(w, commands) /\ Commit(w, "configure_pin", 0, io)
        /\ UNCHANGED <<engine_vars, channel_vars, hist_vars, last_read, event_vars, store_vars>>

ConfigurePinSettings == ConfigurePinSettingsUpTo(MaxSession)

SessionAnalogRead ==
    \E chan \in Channels, io \in LinkIOs("ANALOG_READ") :
        /\ LET w == analog_read(World, chan, io)
           IN /\ MonitorWithinBounds(w, MaxSession)
              /\ Len(w.event_queue) <= MaxEvents
              /\ Commit(w, "analog_read", 0, io)
              /\ last_read' = IF w.ret.kind = "ok"
                              THEN (chan :> [value |-> w.ret.val, in_session |-> TRUE]) @@ last_read
                              ELSE last_read
        /\ UNCHANGED <<engine_vars, channel_vars, hist_vars, event_vars, store_vars>>

\* open(config_file, 'w') succeeds or raises.
Cleanup ==
    \E opened \in BOOLEAN :
        /\ running' = FALSE
        /\ Commit(cleanup(World), "cleanup", 0, NoIO)
        /\ last_read' = EndSession(last_read)
        /\ files' = IF opened
                    THEN (config_file :> config_document(pin_configs, sequences, sequence_objects))
                             @@ files
                    ELSE files
        /\ UNCHANGED <<listeners, dispatch, delivered, tasks, arm, engine_vars, channel_vars,
                       hist_vars>>

\* The thread calls the next callback of the event it has taken.
ServiceCallback ==
    \E ios \in [Pins -> LinkIOs("PIN_MODE")] :
        LET callbacks == listeners[dispatch.event.event_type]
        IN /\ dispatch.pc = "call"
           /\ dispatch.index <= Len(callbacks)
           /\ LET w == service_callback(World, callbacks[dispatch.index], ios)
              IN /\ MonitorWithinBounds(w, MaxSession)
                 /\ Commit(w, callbacks[dispatch.index], 0, NoIO)
           /\ dispatch' = after_callback(dispatch, FALSE)
           /\ delivered' = Append(delivered, [kind |-> "call", n |-> dispatch.event.n,
                                              event_type |-> dispatch.event.event_type,
                                              callback |-> callbacks[dispatch.index],
                                              index |-> dispatch.index, raised |-> FALSE])
           /\ UNCHANGED <<listeners, running, engine_vars, channel_vars, hist_vars, last_read,
                          store_vars>>

NextSession ==
    \/ SessionConnect
    \/ DisconnectHardware
    \/ SessionAnalogRead
    \/ Cleanup
    \/ DispatchGet
    \/ ServiceCallback
    \/ DispatchDone
    \/ DispatchExit

SpecSession == Init /\ [][NextSession]_vars

\* A connection with pins configured by the caller (SpecReapply).
NextReapply ==
    \/ SessionConnect
    \/ ConfigurePinSettings
    \/ DispatchGet
    \/ ServiceCallback
    \/ DispatchDone

SpecReapply == Init /\ [][NextReapply]_vars

\* ------------------------------------------------------------------------
\* The configuration file (SpecConfig): save_configuration on demand, and a
\* new BackendManager, whose __init__ ends with load_configuration.
\* ------------------------------------------------------------------------
\* The names of a "sequences" object in a fixed order.
NameOrder(names) ==
    CHOOSE f \in [1..Cardinality(names) -> names] : \A n \in names : \E i \in DOMAIN f : f[i] = n

\* load_configuration: configure_pin for every item of "pin_configs", on a
\* backend that has not connected yet.
RECURSIVE load_pin_configs(_, _, _)
load_pin_configs(w, data, keys) ==
    IF keys = {} THEN w
    ELSE LET k == CHOOSE x \in keys : \A y \in keys : PinKeys[x] <= PinKeys[y]
         IN load_pin_configs(
                configure_pin(w, PinKeys[k], data[k].mode, data[k].debounce_ms,
                              data[k].smoothing_enabled, NoIO),
                data, keys \ {k})

NewWorld ==
    [monitor |-> NewMonitor, serial_port |-> NoSerial, pin_configs |-> EmptyMap,
     analog_smoothing |-> EmptyMap, event_queue |-> <<>>,
     sent |-> <<>>, exchanges |-> <<>>, response |-> Empty, ret |-> NoRet]

load_configuration(data) == load_pin_configs(NewWorld, data.pin_configs, DOMAIN data.pin_configs)

\* open(config_file, 'w') succeeds or raises.
SaveConfiguration ==
    \E opened \in BOOLEAN :
        /\ files' = IF opened
                    THEN (config_file :> config_document(pin_configs, sequences, sequence_objects))
                             @@ files
                    ELSE files
        /\ call' = [NoCall EXCEPT !.op = "save_configuration", !.file = config_file]
        /\ UNCHANGED <<monitor, serial_port, pin_configs, analog_smoothing, event_queue, tasks, arm,
                       event_vars, engine_vars, channel_vars, hist_vars, last_read>>

\* BackendManager(): the objects are new, the files are what they were.
NewBackend ==
    LET exists == config_file \in DOMAIN files
        data == files[config_file]
        w == IF exists THEN load_configuration(data) ELSE NewWorld
        order == NameOrder(DOMAIN data.sequences)
    IN /\ Len(delivered) + Len(event_queue) + Len(sequence_objects) + monitor.total_commands > 0
       /\ CommitState(w)
       /\ call' = [CallRecord(w, "load_configuration", 0, NoIO) EXCEPT !.file = config_file]
       /\ sequence_objects' = IF exists
                              THEN [i \in DOMAIN order |-> data.sequences[order[i]]]
                              ELSE <<>>
       /\ sequences' = IF exists
                       THEN [n \in DOMAIN data.sequences |->
                                CHOOSE i \in DOMAIN order : order[i] = n]
                       ELSE EmptyMap
       /\ active_sequences' = EmptyMap
       /\ runs' = <<>>
       /\ listeners' = ServiceListeners
       /\ running' = TRUE
       /\ dispatch' = Dispatcher("get")
       /\ delivered' = <<>>
       /\ command_lock' = "free"
       /\ threads' = [t \in Threads |-> IdleThread]
       /\ link_in' = <<>>
       /\ link_out' = <<>>
       /\ rt_hist' = <<>>
       /\ err_hist' = <<>>
       /\ last_read' = EmptyMap
       /\ UNCHANGED store_vars

NextConfig ==
    \/ SessionConnect
    \/ ConfigurePinSettingsUpTo(MaxCommands)
    \/ CreateSequence
    \/ SaveConfiguration
    \/ NewBackend

SpecConfig == Init /\ [][NextConfig]_vars

\* ------------------------------------------------------------------------
\* RoboticArmBackend tasks (SpecTasks): create_task, add_waypoint_to_task,
\* delete_task, save_task and load_task.  The timestamps of tasks and
\* waypoints are left out.
\* ------------------------------------------------------------------------
TaskNames == {"pick", "place"}

\* RoboticArmBackend(max_tasks = 6)
max_tasks == 6

\* RoboticArmBackend(max_waypoints = 250)
max_waypoints == 250

Filenames == {"task.json"}

\* The Enum classes: member name -> value.
TrajectoryType == [SMOOTH |-> "smooth", LINEAR |-> "linear", CPG |-> "cpg"]

MotionProfile == [FAST |-> "fast", NORMAL |-> "normal", SLOW |-> "slow", PRECISE |-> "precise"]

\* Enum(value): the member with that value; none is a ValueError.
EnumOf(enum, value) ==
    IF \E m \in DOMAIN enum : enum[m] = value
    THEN CHOOSE m \in DOMAIN enum : enum[m] = value
    ELSE "ValueError"

Waypoint(positions, delay_ms, trajectory_type, motion_profile) ==
    [positions |-> positions, delay_ms |-> delay_ms,
     trajectory_type |-> trajectory_type, motion_profile |-> motion_profile]

\* The waypoints the callers add.
Waypoints ==
    {Waypoint(<<0, 90>>, 500, "SMOOTH", "NORMAL"),
     Waypoint(<<45, 10>>, 0, "CPG", "PRECISE")}

TaskSequence(name, description, waypoints) ==
    [name |-> name, description |-> description, waypoints |-> waypoints]

TaskCall(op, name, filename, ret) ==
    [NoCall EXCEPT !.op = op, !.name = name, !.file = filename, !.ret = ret]

RetName(name) == [kind |-> "ok", val |-> 0, text |-> name]

\* The document save_task hands to json.dump.
task_data(task) ==
    [name |-> task.name,
     description |-> task.description,
     waypoints |-> [i \in DOMAIN task.waypoints |->
                       [positions |-> task.waypoints[i].positions,
                        delay_ms |-> task.waypoints[i].delay_ms,
                        trajectory_type |-> TrajectoryType[task.waypoints[i].trajectory_type],
                        motion_profile |-> MotionProfile[task.waypoints[i].motion_profile]]]]

load_task_default_delay(data) ==
    TaskSequence(data.name, data.description,
                 [i \in DOMAIN data.waypoints |->
                     Waypoint(data.waypoints[i].positions,
                              500,
                              EnumOf(TrajectoryType, data.waypoints[i].trajectory_type),
                              EnumOf(MotionProfile, data.waypoints[i].motion_profile))])

\* The TaskSequence load_task builds from the document of a file.
load_task(data) ==
    TaskSequence(data.name, data.description,
                 [i \in DOMAIN data.waypoints |->
                     Waypoint(data.waypoints[i].positions,
                              data.waypoints[i].delay_ms,
                              EnumOf(TrajectoryType, data.waypoints[i].trajectory_type),
                              EnumOf(MotionProfile, data.waypoints[i].motion_profile))])

\* The waypoints of all the tasks.
StoredWaypoints(ts) ==
    SeqSum([i \in 1..2 |->
               LET n == IF i = 1 THEN "pick" ELSE "place"
               IN IF n \in DOMAIN ts THEN Len(ts[n].waypoints) ELSE 0])

not_tasks == <<monitor, serial_port, pin_configs, analog_smoothing, event_queue, event_vars,
               engine_vars, channel_vars, hist_vars, last_read, arm>>

CreateTask ==
    \E name \in TaskNames :
        /\ IF Cardinality(DOMAIN tasks) >= max_tasks \/ name \in DOMAIN tasks
           THEN /\ call' = TaskCall("create_task", name, "", RetNone)
                /\ UNCHANGED tasks
           ELSE /\ tasks' = (name :> TaskSequence(name, "", <<>>)) @@ tasks
                /\ call' = TaskCall("create_task", name, "", RetName(name))
        /\ UNCHANGED <<files, not_tasks>>

DeleteTask ==
    \E name \in TaskNames :
        /\ IF name \in DOMAIN tasks
           THEN /\ tasks' = [n \in DOMAIN tasks \ {name} |-> tasks[n]]
                /\ call' = TaskCall("delete_task", name, "", RetTrue)
           ELSE /\ call' = TaskCall("delete_task", name, "", RetFalse)
                /\ UNCHANGED tasks
        /\ UNCHANGED <<files, not_tasks>>

AddWaypointToTask ==
    \E name \in TaskNames, wp \in Waypoints :
        /\ StoredWaypoints(tasks) < MaxWaypoints
        /\ IF name \notin DOMAIN tasks
           THEN /\ call' = TaskCall("add_waypoint_to_task", name, "", RetFalse)
                /\ UNCHANGED tasks
           ELSE IF Len(tasks[name].waypoints) >= max_waypoints
           THEN /\ call' = TaskCall("add_waypoint_to_task", name, "", RetFalse)
                /\ UNCHANGED tasks
           ELSE /\ tasks' = [tasks EXCEPT ![name].waypoints = Append(@, wp)]
                /\ call' = TaskCall("add_waypoint_to_task", name, "", RetTrue)
        /\ UNCHANGED <<files, not_tasks>>

\* open(filename, 'w') succeeds or raises; json.dump writes the document.
SaveTask ==
    \E name \in TaskNames, filename \in Filenames, opened \in BOOLEAN :
        /\ IF name \in DOMAIN tasks /\ opened
           THEN /\ files' = (filename :> task_data(tasks[name])) @@ files
                /\ call' = TaskCall("save_task", name, filename, RetTrue)
           ELSE /\ call' = TaskCall("save_task", name, filename, RetFalse)
                /\ UNCHANGED files
        /\ UNCHANGED <<tasks, not_tasks>>

\* open(filename, 'r') raises when there is no such file.
LoadTask ==
    \E filename \in Filenames :
        /\ IF filename \in DOMAIN files
           THEN LET task == load_task(files[filename])
                IN /\ tasks' = (task.name :> task) @@ tasks
                   /\ call' = TaskCall("load_task", "", filename, RetName(task.name))
           ELSE /\ call' = TaskCall("load_task", "", filename, RetNone)
                /\ UNCHANGED tasks
        /\ UNCHANGED <<files, not_tasks>>

NextTasks ==
    \/ CreateTask
    \/ DeleteTask
    \/ AddWaypointToTask
    \/ SaveTask
    \/ LoadTask

SpecTasks == Init /\ [][NextTasks]_vars

\* ------------------------------------------------------------------------
\* RoboticArmBackend link: connect_serial, disconnect, send_command,
\* send_positions and read_all_positions.  A response is what send_command
\* returns: the line read (a sequence of characters), "Not connected" or
\* "Error: ..."; the response time is left out.
\* ------------------------------------------------------------------------
DigitValue ==
    ("0" :> 0) @@ ("1" :> 1) @@ ("2" :> 2) @@ ("3" :> 3) @@ ("4" :> 4) @@
    ("5" :> 5) @@ ("6" :> 6) @@ ("7" :> 7) @@ ("8" :> 8) @@ ("9" :> 9)

ArmLine(chars) == [kind |-> "line", chars |-> chars]

ArmNotConnected == [kind |-> "Not connected", chars |-> <<>>]

ArmError == [kind |-> "Error", chars |-> <<>>]

\* The lines the device answers with: "90", "10,20", "ok", and the empty
\* line readline gives after its timeout.
ArmLines ==
    {<<"9", "0">>, <<"1", "0", ",", "2", "0">>, <<"o", "k">>, <<>>}

\* What the link does with one command: a line is read, or write or
\* readline raises.
ArmIOs == [kind : {"reply"}, chars : ArmLines] \cup [kind : {"exception"}, chars : {<<>>}]

\* bool(response)
truthy(response) == response.kind # "line" \/ response.chars # <<>>

\* response.startswith("Error")
startswith_Error(response) ==
    \/ response.kind = "Error"
    \/ /\ response.kind = "line"
       /\ Len(response.chars) >= 5
       /\ SubSeq(response.chars, 1, 5) = <<"E", "r", "r", "o", "r">>

\* str.isdigit(): not empty and every character a digit.
isdigit(chars) == chars # <<>> /\ \A i \in DOMAIN chars : chars[i] \in DOMAIN DigitValue

\* response.isdigit()
response_isdigit(response) == response.kind = "line" /\ isdigit(response.chars)

\* str.split(','): the pieces between the commas.
RECURSIVE split(_)
split(chars) ==
    IF \E i \in DOMAIN chars : chars[i] = ","
    THEN LET i == CHOOSE j \in DOMAIN chars :
                      chars[j] = "," /\ \A k \in 1..(j - 1) : chars[k] # ","
         IN <<SubSeq(chars, 1, i - 1)>> \o split(SubSeq(chars, i + 1, Len(chars)))
    ELSE <<chars>>

\* float(x) of a piece made of digits; any other piece of the lines above
\* is a ValueError.
RECURSIVE float(_)
float(piece) ==
    IF piece = <<>> THEN 0
    ELSE 10 * float(SubSeq(piece, 1, Len(piece) - 1)) + DigitValue[piece[Len(piece)]]

\* [float(x) for x in response.split(',') if x.strip()]; a piece float()
\* rejects raises ValueError.
parse_positions(chars) ==
    LET pieces == SelectSeq(split(chars), LAMBDA x : x # <<>>)
    IN IF \A i \in DOMAIN pieces : isdigit(pieces[i])
       THEN [raised |-> FALSE, positions |-> [i \in DOMAIN pieces |-> float(pieces[i])]]
       ELSE [raised |-> TRUE, positions |-> <<>>]

ArmCallbacks == {"update_display"}

ArmCall(op) == [NoCall EXCEPT !.op = op]

not_arm == <<monitor, serial_port, pin_configs, analog_smoothing, event_queue, event_vars,
             engine_vars, channel_vars, hist_vars, last_read, tasks, files>>

\* send_command(command) as one step: the arm it leaves and the response.
arm_send_command(a, command, io) ==
    IF ~a.is_connected
    THEN [arm |-> a, response |-> ArmNotConnected]
    ELSE IF io.kind = "exception" \/ ~a.port_open
    THEN [arm |-> [a EXCEPT !.total_commands = @ + 1, !.error_count = @ + 1],
          response |-> ArmError]
    ELSE [arm |-> [a EXCEPT !.total_commands = @ + 1,
                            !.successful_commands = @ + 1],
          response |-> ArmLine(io.chars)]

\* read_all_positions once send_command has returned response: the cache,
\* the callbacks called (each returns or raises) and the list returned.
read_positions(a, response) ==
    LET parsed == IF truthy(response) /\ response_isdigit(response)
                  THEN parse_positions(response.chars)
                  ELSE [raised |-> FALSE, positions |-> <<>>]
        positions == parsed.positions
    IN IF parsed.raised \/ positions = <<>>
       THEN [a EXCEPT !.returned = <<>>]
       ELSE [a EXCEPT !.current_positions = positions,
                      !.notified = @ \o [i \in DOMAIN a.position_callbacks |->
                                            [callback |-> a.position_callbacks[i],
                                             positions |-> positions]],
                      !.returned = positions]

read_all_positions(a, io) ==
    IF ~a.is_connected THEN [a EXCEPT !.returned = <<>>]
    ELSE LET sent == arm_send_command(a, "readall", io)
         IN read_positions(sent.arm, sent.response)

\* connect_serial(port): opened is whether serial.Serial(port) succeeded,
\* probe whether _test_connection read a line starting with "STATUS:".
ConnectSerial ==
    \E opened \in BOOLEAN, probe \in BOOLEAN :
        /\ arm' = IF ~opened THEN arm
                  ELSE IF probe
                  THEN [arm EXCEPT !.port_open = TRUE, !.is_connected = TRUE, !.running = TRUE]
                  ELSE [arm EXCEPT !.port_open = FALSE]
        /\ call' = ArmCall("connect_serial")
        /\ UNCHANGED not_arm

ArmDisconnect ==
    /\ arm' = [arm EXCEPT !.running = FALSE, !.port_open = FALSE, !.is_connected = FALSE]
    /\ call' = ArmCall("disconnect")
    /\ UNCHANGED not_arm

AddPositionCallback ==
    \E callback \in ArmCallbacks :
        /\ Len(arm.position_callbacks) < MaxArmCallbacks
        /\ arm' = [arm EXCEPT !.position_callbacks = Append(@, callback)]
        /\ call' = ArmCall("add_position_callback")
        /\ UNCHANGED not_arm

ReadAllPositions ==
    \E io \in ArmIOs :
        /\ arm.total_commands < MaxArmCommands
        /\ arm' = read_all_positions(arm, io)
        /\ call' = [ArmCall("read_all_positions") EXCEPT
                        !.io = IF arm.is_connected THEN io.kind ELSE "none",
                        !.exchanges = IF arm.is_connected /\ arm.port_open /\ io.kind = "reply"
                                      THEN <<io.chars>> ELSE <<>>]
        /\ UNCHANGED not_arm

NextArmRead ==
    \/ ConnectSerial
    \/ ArmDisconnect
    \/ AddPositionCallback
    \/ ReadAllPositions

SpecArmRead == Init /\ [][NextArmRead]_vars

\* Concurrent callers of send_command (SpecArmLink): the thread of
\* _realtime_update_loop, which calls read_all_positions while
\* realtime_enabled, and a caller of send_positions.  send_command has no
\* lock; a call is the steps of the code: the write, the readline, and for
\* each `metrics[key] += 1` the load of the value and the store of the
\* value plus one, between which the other thread may run.
ArmThreads == {"poll", "caller"}

\* The counter the thread at pc loads or stores, and where it goes next.
CounterAt ==
    [load_total |-> "total_commands", store_total |-> "total_commands",
     load_successful |-> "successful_commands", store_successful |-> "successful_commands",
     error_load_total |-> "total_commands", error_store_total |-> "total_commands",
     load_error |-> "error_count", store_error |-> "error_count"]

NextPc ==
    [load_total |-> "store_total", store_total |-> "load_successful",
     load_successful |-> "store_successful", store_successful |-> "idle",
     error_load_total |-> "error_store_total", error_store_total |-> "load_error",
     load_error |-> "store_error", store_error |-> "idle"]

Loads == {"load_total", "load_successful", "error_load_total", "load_error"}

Stores == {"store_total", "store_successful", "error_store_total", "store_error"}

\* The lines read by the concurrent callers: "90" and "ok".
ThreadLines == {<<"9", "0">>, <<"o", "k">>}

\* realtime_enabled is a public attribute the application sets.
SetRealtime ==
    /\ ~arm.realtime_enabled
    /\ arm' = [arm EXCEPT !.realtime_enabled = TRUE]
    /\ call' = ArmCall("realtime_enabled")
    /\ UNCHANGED not_arm

\* The loop of _realtime_update_loop, or send_positions, up to the
\* connection test of send_command.
ArmSendBegin ==
    \E t \in ArmThreads :
        /\ arm.callers[t].pc = "idle"
        /\ arm.callers[t].calls < MaxArmCalls
        /\ arm.is_connected
        /\ t = "poll" => arm.running /\ arm.realtime_enabled
        /\ arm' = [arm EXCEPT !.callers[t].pc = "write", !.callers[t].calls = @ + 1]
        /\ UNCHANGED <<call, not_arm>>

\* serial_port.write raises on a closed port.
ArmWrite ==
    \E t \in ArmThreads :
        /\ arm.callers[t].pc = "write"
        /\ arm' = IF arm.port_open
                  THEN [arm EXCEPT !.callers[t].pc = "read", !.wire = Append(@, t)]
                  ELSE [arm EXCEPT !.callers[t].pc = "error_load_total"]
        /\ UNCHANGED <<call, not_arm>>

\* serial_port.readline returns a line, or raises on a closed port.
ArmReadline ==
    \E t \in ArmThreads, chars \in ThreadLines :
        /\ arm.callers[t].pc = "read"
        /\ arm' = IF arm.port_open
                  THEN [arm EXCEPT !.callers[t].pc = "load_total",
                                   !.callers[t].response = ArmLine(chars)]
                  ELSE [arm EXCEPT !.callers[t].pc = "error_load_total",
                                   !.callers[t].response = ArmError]
        /\ UNCHANGED <<call, not_arm>>

ArmLoad ==
    \E t \in ArmThreads :
        /\ arm.callers[t].pc \in Loads
        /\ arm' = [arm EXCEPT !.callers[t].tmp = arm[CounterAt[arm.callers[t].pc]],
                              !.callers[t].pc = NextPc[@]]
        /\ UNCHANGED <<call, not_arm>>

\* The store that ends send_command returns to the caller: the thread of
\* the loop goes on with the rest of read_all_positions.
ArmStore ==
    \E t \in ArmThreads :
        LET pc == arm.callers[t].pc
            stored == [arm EXCEPT ![CounterAt[pc]] = arm.callers[t].tmp + 1,
                                  !.callers[t].pc = NextPc[pc]]
        IN /\ pc \in Stores
           /\ arm' = IF NextPc[pc] = "idle" /\ t = "poll"
                     THEN read_positions(stored, arm.callers[t].response)
                     ELSE stored
           /\ call' = IF NextPc[pc] = "idle" THEN ArmCall("send_command") ELSE call
           /\ UNCHANGED not_arm

NextArmLink ==
    \/ ConnectSerial
    \/ SetRealtime
    \/ ArmDisconnect
    \/ ArmSendBegin
    \/ ArmWrite
    \/ ArmReadline
    \/ ArmLoad
    \/ ArmStore

SpecArmLink == Init /\ [][NextArmLink]_vars

\* execute_task (SpecArmTask), while disconnect is called by another
\* thread.  Its steps are the entry with the parameter
\* commands, the test at the top of the waypoint loop with the test of
\* send_positions, one position command, and the end of the pass.  Tasks
\* are edited and the link is opened before the executions; the parameter
\* commands are answered with "ok" while the port is open.  MaxDepth stands for the recursion
\* limit of the interpreter.
MotionCommands == <<"speed", "dur", "precision", "cpg off", "interp", "backlash", "smooth">>

\* What the link does with a command of execute_task: "ok" is read, the
\* readline times out, or the write raises.
TaskIOs ==
    {[kind |-> "reply", chars |-> <<"o", "k">>],
     [kind |-> "reply", chars |-> <<>>],
     [kind |-> "exception", chars |-> <<>>]}

ParamIO == [kind |-> "reply", chars |-> <<"o", "k">>]

\* The parameter commands, sent one after the other; their responses are
\* not looked at.
RECURSIVE send_all(_, _, _)
send_all(a, commands, io) ==
    IF commands = <<>> THEN a
    ELSE send_all(arm_send_command(a, Head(commands), io).arm, Tail(commands), io)

\* execute_task from its first line to the top of the waypoint loop.
enter_task(a, ts, name, loop, io) ==
    IF name \notin DOMAIN ts THEN [arm |-> a, entered |-> FALSE]
    ELSE IF ts[name].waypoints = <<>> THEN [arm |-> a, entered |-> FALSE]
    ELSE [arm |-> [send_all(a, MotionCommands, io) EXCEPT
                      !.exec.pc = "waypoint", !.exec.name = name, !.exec.loop = loop,
                      !.exec.wp = 1, !.exec.axis = 0, !.exec.passes = @ + 1],
          entered |-> TRUE]

TaskReturn(a, ret) ==
    /\ arm' = [a EXCEPT !.exec.pc = "idle"]
    /\ call' = [ArmCall("execute_task") EXCEPT !.name = a.exec.name, !.ret = ret]

CreateTaskBefore == arm.exec.calls = 0 /\ CreateTask

AddWaypointBefore == arm.exec.calls = 0 /\ AddWaypointToTask

ConnectBefore == arm.exec.calls = 0 /\ ConnectSerial

ExecuteTask ==
    \E name \in TaskNames, loop \in BOOLEAN, io \in {ParamIO} :
        LET started == [arm EXCEPT !.exec.calls = @ + 1, !.exec.name = name,
                                   !.exec.loop = loop, !.exec.depth = 0,
                                   !.exec.passes = 0, !.exec.sent = <<>>]
            entry == enter_task(started, tasks, name, loop, io)
        IN /\ arm.exec.pc = "idle"
           /\ arm.exec.calls < MaxExecutes
           /\ IF entry.entered
              THEN arm' = entry.arm /\ UNCHANGED call
              ELSE TaskReturn(started, RetFalse)
           /\ UNCHANGED not_arm

\* for waypoint in task.waypoints: if not self.is_connected: break, and
\* the same test at the top of send_positions.
ExecWaypoint ==
    /\ arm.exec.pc = "waypoint"
    /\ arm' = IF arm.exec.wp > Len(tasks[arm.exec.name].waypoints) \/ ~arm.is_connected
              THEN [arm EXCEPT !.exec.pc = "end"]
              ELSE [arm EXCEPT !.exec.pc = "axis", !.exec.axis = 1]
    /\ UNCHANGED <<call, not_arm>>

\* One pass of the loop of send_positions; after the last position the
\* sleeps of execute_task and the next waypoint.
ExecAxis ==
    \E io \in TaskIOs :
        LET positions == tasks[arm.exec.name].waypoints[arm.exec.wp].positions
            axis == arm.exec.axis
            sent == arm_send_command(arm, <<axis, positions[axis]>>, io)
        IN /\ arm.exec.pc = "axis"
           /\ IF axis > Len(positions)
              THEN arm' = [arm EXCEPT !.exec.pc = "waypoint", !.exec.wp = @ + 1]
                   /\ UNCHANGED call
              ELSE IF ~truthy(sent.response) \/ startswith_Error(sent.response)
              THEN TaskReturn(sent.arm, RetFalse)
              ELSE arm' = [sent.arm EXCEPT
                              !.exec.axis = @ + 1,
                              !.exec.sent = IF sent.response.kind = "line"
                                            THEN Append(@, <<arm.exec.wp, axis, positions[axis]>>)
                                            ELSE @]
                   /\ UNCHANGED call
           /\ UNCHANGED not_arm

\* After the loop: with loop the task is executed again by a recursive
\* call, whose value is returned; the call that exceeds the recursion limit
\* raises RecursionError, which is caught.
ExecEnd ==
    \E io \in {ParamIO} :
        LET again == enter_task([arm EXCEPT !.exec.depth = @ + 1], tasks,
                                arm.exec.name, TRUE, io)
        IN /\ arm.exec.pc = "end"
           /\ IF ~arm.exec.loop THEN TaskReturn(arm, RetTrue)
              ELSE IF arm.exec.depth >= MaxDepth THEN TaskReturn(arm, RetFalse)
              ELSE arm' = again.arm /\ UNCHANGED call
           /\ UNCHANGED not_arm

NextArmTask ==
    \/ CreateTaskBefore
    \/ AddWaypointBefore
    \/ ConnectBefore
    \/ ArmDisconnect
    \/ ExecuteTask
    \/ ExecWaypoint
    \/ ExecAxis
    \/ ExecEnd

SpecArmTask == Init /\ [][NextArmTask]_vars

\* ------------------------------------------------------------------------
\* Calls on the monitor alone (SpecWindow): the windows start empty or
\* nearly full, as left by earlier commands and failed connection attempts.
\* ------------------------------------------------------------------------
ConnectionFailed == [error |-> "Connection failed", context |-> "COM3", state |-> DISCONNECTED]

UsedMonitor(n, k) ==
    [NewMonitor EXCEPT !.state = CONNECTED,
                       !.total_commands = n,
                       !.successful_commands = n,
                       !.error_count = k,
                       !.response_times = Ramp(n),
                       !.average_response_time =
                           IF n = 0 THEN @ ELSE [sum |-> SeqSum(Ramp(n)), n |-> n],
                       !.error_log = [i \in 1..k |-> ConnectionFailed]]

InitWindow ==
    \E n \in {0, MaxResponseTimes - 1}, k \in {0, MaxErrorLog - 1} :
        /\ monitor = UsedMonitor(n, k)
        /\ serial_port = OpenSerial("COM3")
        /\ rt_hist = Ramp(n)
        /\ err_hist = [i \in 1..k |-> ConnectionFailed]
        /\ command_lock = "free"
        /\ pin_configs = EmptyMap
        /\ analog_smoothing = EmptyMap
        /\ event_queue = <<>>
        /\ listeners = ServiceListeners
        /\ running = TRUE
        /\ dispatch = Dispatcher("get")
        /\ delivered = <<>>
        /\ tasks = EmptyMap
        /\ files = EmptyMap
    /\ arm = NewArm
        /\ sequence_objects = <<>>
        /\ sequences = EmptyMap
        /\ active_sequences = EmptyMap
        /\ runs = <<>>
        /\ threads = [t \in Threads |-> IdleThread]
        /\ link_in = <<>>
        /\ link_out = <<>>
        /\ call = NoCall
        /\ last_read = EmptyMap

\* Room for one more entry in a history that started at 0 or at full - 1.
WindowRoom(len, full) ==
    \/ len < WindowExtra
    \/ full - 1 <= len /\ len < full - 1 + WindowExtra

UpdateResponseTime ==
    \E response_time \in {ReplyMs, TimeoutMs} :
        /\ WindowRoom(Len(rt_hist), MaxResponseTimes)
        /\ monitor' = update_response_time(monitor, response_time)
        /\ rt_hist' = Append(rt_hist, response_time)
        /\ call' = [NoCall EXCEPT !.op = "update_response_time"]
        /\ UNCHANGED <<serial_port, pin_configs, analog_smoothing, event_queue,
                       engine_vars, channel_vars, err_hist, last_read, event_vars, store_vars>>

RecordError ==
    \E error \in {"exception", "Connection failed"} :
        /\ WindowRoom(Len(err_hist), MaxErrorLog)
        /\ monitor' = record_error(monitor, error, "")
        /\ err_hist' = Append(err_hist, ErrorEntry(monitor, error, ""))
        /\ call' = [NoCall EXCEPT !.op = "record_error"]
        /\ UNCHANGED <<serial_port, pin_configs, analog_smoothing, event_queue,
                       engine_vars, channel_vars, rt_hist, last_read, event_vars, store_vars>>

NextWindow ==
    \/ UpdateResponseTime
    \/ RecordError

SpecWindow == InitWindow /\ [][NextWindow]_vars

\* ------------------------------------------------------------------------
\* Properties
\* ------------------------------------------------------------------------
CommandOps == {"send_command", "configure_pin", "digital_write", "digital_read",
               "analog_read", "get_status"}
ServiceOps == CommandOps \ {"send_command"}

\* C2: successful_commands + error_count never exceeds total_commands, and
\* after every operation that recorded a command outcome the three counters
\* balance: total_commands = successful_commands + error_count.
C2_CountersBalance ==
    /\ monitor.successful_commands + monitor.error_count <= monitor.total_commands
    /\ (call.op \in CommandOps /\ call.io # "none") =>
           monitor.total_commands = monitor.successful_commands + monitor.error_count

\* C3: a digital_write on a connected interface whose DIGITAL_WRITE read
\* times out returns failure, raises error_count by exactly 1 and leaves the
\* health score strictly lower than it was before the call.
C3_TimeoutIsCountedOnce ==
    [][(call'.op = "digital_write" /\ call'.io = "timeout"
            /\ is_connected(monitor, serial_port))
        => (/\ call'.ret.kind = "fail"
            /\ monitor'.error_count = monitor.error_count + 1
            /\ FracLess(get_health_score(monitor'), get_health_score(monitor)))]_vars

\* C5: an I/O operation called while the connection state is not CONNECTED
\* returns a failure, writes nothing to the link and changes neither the
\* monitor, the link, the pin configurations, the smoothing state nor the
\* event queue.
C5_NotConnectedIsNoOp ==
    [][(monitor.state # CONNECTED /\ call'.op \in CommandOps)
        => (/\ call'.ret.kind = "fail"
            /\ call'.sent = <<>>
            /\ UNCHANGED <<monitor, serial_port, pin_configs, analog_smoothing,
                           event_queue>>)]_vars

C5_Witness ==
    /\ call.op = "digital_write"
    /\ call.ret = RetFalse
    /\ monitor.state = DISCONNECTED
    /\ monitor.total_commands > 0
    /\ serial_port.exists

C7_FailureIsCounted ==
    [][(call'.op \in ServiceOps /\ call'.io # "none" /\ call'.ret.kind = "fail")
        => monitor'.error_count > monitor.error_count]_vars

\* C8: the health score lies in [0,100]; with no command issued it is 100
\* when the state is CONNECTED and 0 otherwise.
C8_HealthScoreRange ==
    LET h == get_health_score(monitor)
    IN /\ h.den > 0
       /\ 0 <= h.num
       /\ h.num <= 100 * h.den
       /\ monitor.total_commands = 0 =>
              h.num = (IF monitor.state = CONNECTED THEN 100 * h.den ELSE 0)

C8_Witness ==
    /\ monitor.total_commands > 0
    /\ monitor.error_count > monitor.total_commands
    /\ RawHealth(monitor).num < 0
    /\ get_health_score(monitor).num = 0

\* C9: response_times holds at most 100 samples and error_log at most 50
\* entries, each being exactly the most recent ones recorded, in arrival
\* order.
C9_WindowsAreFifo ==
    /\ Len(monitor.response_times) <= MaxResponseTimes
    /\ monitor.response_times = LastN(rt_hist, MaxResponseTimes)
    /\ Len(monitor.error_log) <= MaxErrorLog
    /\ monitor.error_log = LastN(err_hist, MaxErrorLog)

C9_Witness ==
    /\ Len(rt_hist) > MaxResponseTimes + 1
    /\ Len(err_hist) > MaxErrorLog + 1
    /\ call.op = "update_response_time"

\* The raw sample of the analog read just performed, as published.
LastRaw(queue) == queue[Len(queue)].raw_value
LastChan(queue) == queue[Len(queue)].chan

\* C10 as stated: the first successful analog read of a channel in a session
\* returns the raw sample, and every later one returns exactly
\* 0.7 x (value returned by the previous read) + 0.3 x (raw sample).
C10_ExactSmoothing ==
    [][(call'.op = "analog_read" /\ call'.ret.kind = "ok")
        => LET chan == LastChan(event_queue')
               raw == LastRaw(event_queue')
           IN IF chan \in DOMAIN last_read /\ last_read[chan].in_session
              THEN 10 * call'.ret.val = 7 * last_read[chan].value + 3 * raw
              ELSE call'.ret.val = raw]_vars

\* C10 amended: the first successful analog read of a channel without
\* smoothing history returns the raw sample, and every later one returns
\* int(0.7 x previous + 0.3 x raw) of the double-precision sum: the exact
\* value truncated, or one less where the sum falls just below an integer.
C10_TruncatedSmoothing ==
    [][(call'.op = "analog_read" /\ call'.ret.kind = "ok")
        => LET chan == LastChan(event_queue')
               raw == LastRaw(event_queue')
               previous == last_read[chan].value
               exact10 == 7 * previous + 3 * raw
           IN IF chan \in DOMAIN last_read
              THEN /\ 10 * call'.ret.val <= exact10
                   /\ exact10 <= 10 * call'.ret.val + 10
                   /\ (exact10 = 10 * call'.ret.val + 10) <=> (<<previous, raw>> \in FloatBelow)
              ELSE call'.ret.val = raw]_vars

C10_Witness ==
    /\ call.op = "analog_read"
    /\ call.ret.kind = "ok"
    /\ Len(event_queue) = 3
    /\ \A i \in 1..3 : event_queue[i].event_type = "analog_value_changed"
    /\ event_queue[2].value # event_queue[2].raw_value
    /\ event_queue[3].value # event_queue[2].value
    /\ event_queue[3].value * 10 # 7 * event_queue[2].value + 3 * event_queue[3].raw_value

\* C1: a run of a sequence executes no step once a later run of the same
\* name has been started.
C1_PreviousRunStopped ==
    call.op = "execute_step" =>
        \A r \in DOMAIN runs : runs[r].name = runs[call.run].name => r <= call.run

InFlight == {t \in Threads : threads[t].pc \in {"write", "read"}}

\* The line a caller read in its last completed call answers that call.
Paired(t) ==
    threads[t].response.kind = "line" =>
        /\ threads[t].response.of = t
        /\ threads[t].response.n = threads[t].calls - (IF threads[t].pc = "idle" THEN 0 ELSE 1)

SequenceEvents(queue, event_type, name, flags) ==
    {i \in DOMAIN queue : /\ queue[i].event_type = event_type
                          /\ queue[i].name = name
                          /\ queue[i].flag \in flags}

RunsOf(name) == {r \in DOMAIN runs : runs[r].name = name}

Looping(name) == name \in DOMAIN sequences /\ sequence_objects[sequences[name]].loop

\* C11: stop_sequence(name) on a looping sequence that is running returns
\* success, emits exactly one sequence_completed event flagged "stopped" for
\* the name, and leaves the name out of the active set.
C11_StopEmitsOnceAndDeactivates ==
    [][(/\ call' # call
        /\ call'.op = "stop_sequence"
        /\ call'.name \in DOMAIN active_sequences
        /\ Looping(call'.name))
        => (/\ call'.ret = RetTrue
            /\ event_queue' = Append(event_queue,
                                     SequenceEvent("sequence_completed", call'.name, "stopped"))
            /\ call'.name \notin DOMAIN active_sequences')]_vars

C11_Witness ==
    /\ call.op = "stop_sequence"
    /\ call.ret = RetTrue
    /\ Looping(call.name)
    /\ \E r \in RunsOf(call.name) : runs[r].pc = "loop" /\ runs[r].executed > 0

\* C12: every run of a sequence ends with exactly one sequence_completed
\* event, so a name never has more sequence_completed events (flagged
\* "completed" or "stopped") than it has runs.
C12_OneCompletionPerRun ==
    \A name \in Names :
        Cardinality(SequenceEvents(event_queue, "sequence_completed", name,
                                   {"completed", "stopped"}))
            <= Cardinality(RunsOf(name))

\* C13: stop_sequence(name) for a name that is not in the active set returns
\* failure and leaves sequences, the active set and the event queue
\* unchanged.
C13_StopInactiveIsNoOp ==
    [][(/\ call' # call
        /\ call'.op = "stop_sequence"
        /\ call'.name \notin DOMAIN active_sequences)
        => (/\ call'.ret = RetFalse
            /\ UNCHANGED <<sequence_objects, sequences, active_sequences, event_queue>>)]_vars

\* A stop that failed after an earlier stop of the same name succeeded.
C13_Witness ==
    /\ call.op = "stop_sequence"
    /\ call.ret = RetFalse
    /\ SequenceEvents(event_queue, "sequence_completed", call.name, {"stopped"}) # {}

\* C14: create_sequence(name, ...) for a name that already exists returns
\* failure and leaves the stored sequences, the active set and the event
\* queue unchanged.
C14_CreateExistingFails ==
    [][(/\ call' # call
        /\ call'.op = "create_sequence"
        /\ call'.name \in DOMAIN sequences)
        => (/\ call'.ret = RetFalse
            /\ UNCHANGED <<sequence_objects, sequences, active_sequences, event_queue>>)]_vars

\* The command of the last send_command call of the last operation.
LastCommand(c) == c.exchanges[Len(c.exchanges)].command

PinStateChanged(pin, state) == Event("pin_state_changed", "", pin, "", state, 0, "digital")

\* C17: a digital_write that returns success and a digital_read that returns
\* a value each enqueue exactly one pin_state_changed event carrying the pin,
\* the written or read state and type "digital"; a digital write or read
\* that fails enqueues nothing.
C17_OnePinEventPerSuccess ==
    [][/\ call'.op = "digital_write" =>
            IF call'.ret = RetTrue
            THEN \E state \in {0, 1} :
                    /\ StateArg(state) = LastCommand(call').arg
                    /\ event_queue' = Append(event_queue,
                                             PinStateChanged(LastCommand(call').pin, state))
            ELSE event_queue' = event_queue
       /\ call'.op = "digital_read" =>
            IF call'.ret.kind = "ok"
            THEN event_queue' = Append(event_queue,
                                       PinStateChanged(LastCommand(call').pin, call'.ret.val))
            ELSE event_queue' = event_queue]_vars

C17_Witness ==
    /\ call.op = "digital_write"
    /\ call.ret = RetTrue
    /\ LastCommand(call).arg = "1"
    /\ event_queue = <<PinStateChanged(13, 1)>>

\* C18: digital_write on a pin with no stored configuration calls
\* send_command with PIN_MODE:<pin>:OUTPUT and then with its DIGITAL_WRITE,
\* and stores an OUTPUT configuration exactly when the PIN_MODE is answered
\* "OK"; digital_write on a configured pin and digital_read issue their own
\* command only and leave the configurations unchanged.
C18_AutoConfigureOnWriteOnly ==
    [][/\ call'.op = "digital_write" =>
            LET ex == call'.exchanges
                pin == LastCommand(call').pin
            IN IF pin \notin DOMAIN pin_configs
               THEN /\ Len(ex) = 2
                    /\ ex[1].command = Cmd("PIN_MODE", pin, "", "OUTPUT")
                    /\ ex[2].command.verb = "DIGITAL_WRITE"
                    /\ pin_configs' =
                           IF ex[1].response.kind = "OK"
                           THEN (pin :> PinConfiguration(pin, "OUTPUT", 50, TRUE)) @@ pin_configs
                           ELSE pin_configs
               ELSE /\ Len(ex) = 1
                    /\ ex[1].command.verb = "DIGITAL_WRITE"
                    /\ pin_configs' = pin_configs
       /\ call'.op = "digital_read" =>
            /\ Len(call'.exchanges) = 1
            /\ call'.exchanges[1].command.verb = "DIGITAL_READ"
            /\ pin_configs' = pin_configs]_vars

C18_Witness ==
    /\ call.op = "digital_write"
    /\ Len(call.exchanges) = 2
    /\ call.exchanges[1].response.kind = "OK"
    /\ call.ret = RetTrue
    /\ pin_configs[13].mode = "OUTPUT"

\* The probe was answered by a line that starts with "STATUS:".
ProbeMatched(p) == p.opened /\ p.io = "reply" /\ p.reply.kind \in {"STATUS", "STATUS_BAD"}

\* C19: connect_hardware succeeds iff the link opens and the reply to the
\* probe starts with "STATUS:"; on success the state is CONNECTED and a
\* connection_established event is emitted; on a probe mismatch the opened
\* link is closed, failure is returned, the state is not changed to
\* CONNECTED and a hardware_error event is emitted.
C19_ConnectIffProbeMatches ==
    [][(call'.op = "connect_hardware" /\ UNCHANGED engine_vars) =>
        LET p == call'.probe
            port == serial_port'.port
        IN /\ (call'.ret = RetTrue) <=> ProbeMatched(p)
           /\ call'.ret \in {RetTrue, RetFalse}
           /\ ProbeMatched(p) =>
                 /\ monitor'.state = CONNECTED
                 /\ serial_port'.is_open
                 /\ event_queue' = Append(event_queue, ConnectionEstablished(port))
           /\ (p.opened /\ ~ProbeMatched(p)) =>
                 /\ ~serial_port'.is_open
                 /\ monitor'.state = monitor.state
                 /\ event_queue' = Append(event_queue, HardwareError(port))]_vars

\* A probe answered by a line without the prefix.
C19_Witness ==
    /\ call.op = "connect_hardware"
    /\ call.probe.opened
    /\ call.probe.reply.kind = "ERROR"
    /\ call.ret = RetFalse
    /\ serial_port.exists /\ ~serial_port.is_open

\* C20: disconnect_hardware returns normally, with the active set empty, the
\* link closed, the state DISCONNECTED and exactly one connection_lost event
\* emitted.
C20_DisconnectHardwareCompletes ==
    [][(call'.op = "disconnect_hardware" /\ UNCHANGED engine_vars) =>
        /\ call'.ret.kind # "raise"
        /\ active_sequences' = EmptyMap
        /\ ~serial_port'.is_open
        /\ monitor'.state = DISCONNECTED
        /\ Len(event_queue') > 0
        /\ event_queue'[Len(event_queue')] = ConnectionLost
        /\ Cardinality({i \in DOMAIN event_queue' : event_queue'[i] = ConnectionLost})
             = 1 + Cardinality({i \in DOMAIN event_queue : event_queue[i] = ConnectionLost})]_vars

\* The position in delivered of the event an entry belongs to.
GroupStart(j) == CHOOSE g \in Taken : g <= j /\ \A g2 \in Taken : g2 <= j => g2 <= g

Queued(n) == \E i \in DOMAIN event_queue : event_queue[i].value = n

\* The thread has finished the event numbered n.
Dispatched(n) == \E j \in DOMAIN delivered : delivered[j].kind = "done" /\ delivered[j].n = n

\* A callback raised at position j of delivered: the next thing the thread
\* does is to call the next callback of the same event, or to finish the
\* event if there is none.
GoesOnAfter(j) ==
    IF j < Len(delivered)
    THEN \/ /\ delivered[j + 1].kind = "call"
            /\ delivered[j + 1].n = delivered[j].n
            /\ delivered[j + 1].index = delivered[j].index + 1
         \/ /\ delivered[j + 1].kind = "done"
            /\ delivered[j + 1].index = delivered[j].index
    ELSE /\ dispatch.pc = "call"
         /\ dispatch.event.n = delivered[j].n
         /\ dispatch.index = delivered[j].index + 1

\* C16: when a callback raises while handling an event, the callbacks
\* subscribed after it for the same type are still called for that event,
\* the thread never leaves its loop unless stop() was called, and every
\* event waiting in the queue is dispatched in the end (unless stop() is
\* called first).
C16_FaultIsolation ==
    /\ [](\A j \in DOMAIN delivered :
            (delivered[j].kind = "call" /\ delivered[j].raised) =>
                /\ GoesOnAfter(j)
                /\ dispatch.pc = "exited" => ~running)
    /\ \A n \in 1..MaxEmits : Queued(n) ~> (Dispatched(n) \/ ~running)

\* The first callback raised, the second was called, and the next event was
\* taken afterwards.
C16_Witness ==
    /\ Len(delivered) >= 5
    /\ delivered[2].kind = "call" /\ delivered[2].raised
    /\ delivered[3].kind = "call"
    /\ delivered[5].kind = "get"

\* C24: load_task(f) called right after a successful save_task(name, f)
\* returns name and stores under it a task whose waypoints equal those of
\* the saved task one by one, in positions, delay_ms, trajectory_type and
\* motion_profile, in the same order.
C24_TaskRoundTrip ==
    [][(/\ call.op = "save_task" /\ call.ret = RetTrue
        /\ call'.op = "load_task" /\ call'.file = call.file)
        => /\ call'.ret = RetName(call.name)
           /\ call.name \in DOMAIN tasks'
           /\ Len(tasks'[call.name].waypoints) = Len(tasks[call.name].waypoints)
           /\ \A i \in DOMAIN tasks[call.name].waypoints :
                  LET saved == tasks[call.name].waypoints[i]
                      loaded == tasks'[call.name].waypoints[i]
                  IN /\ loaded.positions = saved.positions
                     /\ loaded.delay_ms = saved.delay_ms
                     /\ loaded.trajectory_type = saved.trajectory_type
                     /\ loaded.motion_profile = saved.motion_profile]_vars

\* A task of two different waypoints was deleted and has come back from
\* its file.
C24_Witness ==
    /\ call.op = "load_task"
    /\ call.ret = RetName("pick")
    /\ "pick" \in DOMAIN tasks
    /\ Len(tasks["pick"].waypoints) = 2
    /\ tasks["pick"].waypoints[1].delay_ms = 0
    /\ tasks["pick"].waypoints[2].trajectory_type = "CPG"
    /\ files[call.file] = task_data(tasks["pick"])

\* C21: once a disconnect has completed (disconnect_hardware or cleanup
\* has returned and no ConnectionLost event waits to be handled),
\* pin_configs is empty.
C21_PinConfigsClearedOnDisconnect ==
    (/\ call.op \in {"disconnect_hardware", "cleanup"}
     /\ call.ret # RetRaise
     /\ \A i \in DOMAIN event_queue : event_queue[i].event_type # "connection_lost"
     /\ dispatch.event.event_type # "connection_lost")
        => pin_configs = EmptyMap

\* C22: the first successful analog_read of a channel after the backend
\* has disconnected and connected again returns the raw sample.
C22_NoSmoothingAcrossSessions ==
    [][(/\ call'.op = "analog_read"
        /\ call'.ret.kind = "ok"
        /\ LastChan(event_queue') \in DOMAIN last_read
        /\ ~last_read[LastChan(event_queue')].in_session)
        => call'.ret.val = LastRaw(event_queue')]_vars

\* C25: when the callback of ConnectionEstablished has run, send_command
\* has been called with a PIN_MODE command carrying the stored mode for
\* every pin of pin_configs, and every stored PinConfiguration is what it
\* was.
C25_ReapplyKeepsSettings ==
    [][call'.op = "_on_connection_established"
        => \A pin \in DOMAIN pin_configs :
               /\ \E i \in DOMAIN call'.exchanges :
                      call'.exchanges[i].command = Cmd("PIN_MODE", pin, "", pin_configs[pin].mode)
               /\ pin_configs'[pin] = pin_configs[pin]]_vars

\* C23: a new backend that finds the saved file has, once
\* load_configuration has run, the pins of the file in pin_configs with the
\* saved mode, debounce_ms and smoothing_enabled, and the sequences of the
\* file.
C23_ConfigurationRoundTrip ==
    [][(call'.op = "load_configuration" /\ config_file \in DOMAIN files)
        => LET data == files[config_file]
           IN /\ DOMAIN pin_configs' = {PinKeys[k] : k \in DOMAIN data.pin_configs}
              /\ \A k \in DOMAIN data.pin_configs :
                     /\ PinKeys[k] \in DOMAIN pin_configs'
                     /\ pin_configs'[PinKeys[k]].mode = data.pin_configs[k].mode
                     /\ pin_configs'[PinKeys[k]].debounce_ms = data.pin_configs[k].debounce_ms
                     /\ pin_configs'[PinKeys[k]].smoothing_enabled
                            = data.pin_configs[k].smoothing_enabled
              /\ DOMAIN sequences' = DOMAIN data.sequences
              /\ \A n \in DOMAIN data.sequences :
                     sequence_objects'[sequences'[n]] = data.sequences[n]]_vars

\* No run of the name of run r has been started after r.
Latest(r) == \A r2 \in RunsOf(runs[r].name) : r2 <= r

\* C26: a run of a non-looping sequence that has executed all the steps and
\* ended has slept for the interval between consecutive steps only, that
\* is, less often than it has executed steps.
C26_NoSleepAfterLastStep ==
    \A r \in DOMAIN runs :
        (/\ runs[r].pc = "done"
         /\ ~sequence_objects[runs[r].sequence].loop
         /\ runs[r].executed > 0
         /\ runs[r].executed = Len(sequence_objects[runs[r].sequence].steps))
            => runs[r].sleeps < runs[r].executed

\* C27 (the order of the steps): the k-th step executed by a run that is not
\* restarted is step k - 1 of the sequence, or step (k - 1) mod n when the
\* sequence loops; and a looping run leaves its loop only after the name has
\* left the active set.
C27_StepsOnceInOrder ==
    [][\A r \in DOMAIN runs :
           LET sequence == sequence_objects[runs[r].sequence]
               n == Len(sequence.steps)
           IN /\ (/\ Latest(r)
                  /\ r \in DOMAIN runs'
                  /\ runs'[r].executed = runs[r].executed + 1)
                    => runs[r].cur = IF sequence.loop THEN runs[r].executed % n
                                     ELSE runs[r].executed
              /\ (/\ runs[r].pc = "loop" /\ runs[r].sequence # 0
                  /\ runs'[r].pc = "done"
                  /\ sequence.loop)
                    => runs[r].name \notin DOMAIN active_sequences]_vars

\* The name of run r has left the active set while r is in its loop.
Stopped(r) ==
    /\ runs[r].pc \in {"loop", "exec"}
    /\ runs[r].name \notin DOMAIN active_sequences

\* C28: a run whose name has left the active set does not pass the test of
\* its loop again: it executes the step it has already chosen, if any, and
\* no other; and it leaves its loop in the end unless the name is started
\* again, so that time and again no run is in its loop with its name out of
\* the active set.
C28_CooperativeCancellation ==
    /\ [][\A r \in DOMAIN runs :
              /\ (Stopped(r) /\ runs[r].pc = "loop") => runs'[r].pc \in {"loop", "done"}
              /\ (runs[r].pc = "exec" /\ runs'[r] # runs[r])
                    => /\ runs'[r].pc = "loop"
                       /\ runs'[r].executed = runs[r].executed + 1]_vars
    /\ []<>(\A r \in DOMAIN runs : ~Stopped(r))

\* A run that was stopped after it had chosen a step has executed that step
\* and has left its loop.
C28_Witness ==
    /\ call.op = "execute_step"
    /\ runs[call.run].pc = "done"
    /\ runs[call.run].executed = 1
    /\ Looping(runs[call.run].name)
    /\ \E i \in DOMAIN event_queue :
           /\ event_queue[i].event_type = "sequence_completed"
           /\ event_queue[i].flag = "stopped"

\* C30: every step that changes the state of the monitor is a step of the
\* caller that holds command_lock.
C30_MonitorMutatedUnderLock ==
    [][monitor' # monitor =>
           \E t \in Threads : command_lock = t /\ threads'[t] # threads[t]]_vars

\* C29: a malformed step is skipped: executing it sends no command, the
\* cursor advances and the run is back at the test of its loop.
C29_MalformedStepSkipped ==
    [][\A r \in DOMAIN runs :
           (/\ runs[r].pc = "exec"
            /\ runs'[r].pc # "exec"
            /\ Malformed(sequence_objects[runs[r].sequence].steps[runs[r].cur + 1]))
               => /\ call'.op = "execute_step"
                  /\ call'.sent = <<>>
                  /\ runs'[r].pc = "loop"
                  /\ sequence_objects'[runs[r].sequence].current_step =
                         sequence_objects[runs[r].sequence].current_step + 1]_vars

\* C35: whenever the state of the monitor is CONNECTED, the serial port the
\* interface refers to exists and is open.
C35_ConnectedImpliesLinkOpen ==
    monitor.state = CONNECTED => serial_port.exists /\ serial_port.is_open

\* C36: every name in the active set has a run that is still in its loop.
C36_NoStaleActiveEntry ==
    \A name \in DOMAIN active_sequences :
        \E r \in DOMAIN runs : runs[r].name = name /\ runs[r].pc \in {"loop", "exec"}

\* C37: there are never more than max_tasks tasks, no task has more than
\* max_waypoints waypoints, and a task that stays under its name is changed
\* by add_waypoint_to_task only: no operation replaces it.
C37_CapacityLimits ==
    [][/\ Cardinality(DOMAIN tasks') <= max_tasks
       /\ \A n \in DOMAIN tasks' : Len(tasks'[n].waypoints) <= max_waypoints
       /\ \A n \in DOMAIN tasks \cap DOMAIN tasks' :
              tasks'[n] # tasks[n] => call'.op = "add_waypoint_to_task"]_vars

\* C33: when every event is emitted before stop(), the dispatch loop has
\* taken all the events of the queue by the time it exits.
C33_StopDrainsQueue ==
    dispatch.pc = "exited" => event_queue = <<>>

\* C34: when the dispatch of an event is over, every callback that is in
\* the list of the event's type (none was subscribed during the dispatch)
\* has been called for the event.
C34_UnsubscribeSkipsNobody ==
    [][(dispatch.pc = "call" /\ dispatch'.pc = "get")
          => \A i \in DOMAIN listeners[dispatch.event.event_type] :
                 \E j \in DOMAIN delivered :
                     /\ delivered[j].kind = "call"
                     /\ delivered[j].n = dispatch.event.n
                     /\ delivered[j].callback =
                            listeners[dispatch.event.event_type][i]]_vars

\* The line is a comma-separated list of one or more positions.
PositionList(chars) ==
    /\ chars # <<>>
    /\ \A i \in DOMAIN split(chars) : isdigit(split(chars)[i])

\* C32: read_all_positions on a connected backend whose device answers
\* with a list of positions returns these positions, caches them and calls
\* every position callback once with them; in every other case it returns
\* the empty list and leaves the cache as it is.
C32_ReadAllPositions ==
    [][call'.op = "read_all_positions" =>
           IF call'.exchanges # <<>> /\ PositionList(call'.exchanges[1])
           THEN LET positions == parse_positions(call'.exchanges[1]).positions
                IN /\ arm'.returned = positions
                   /\ arm'.current_positions = positions
                   /\ arm'.notified = arm.notified \o
                          [i \in DOMAIN arm.position_callbacks |->
                              [callback |-> arm.position_callbacks[i],
                               positions |-> positions]]
           ELSE /\ arm'.returned = <<>>
                /\ arm'.current_positions = arm.current_positions]_vars

\* C31: at most one thread is between the write of its command and the
\* readline of the response.
C31_OneCommandOnTheWire ==
    Cardinality({t \in ArmThreads : arm.callers[t].pc = "read"}) <= 1

\* C38: whenever no send_command is in progress, total_commands is
\* successful_commands plus error_count.
C38_MetricsAddUp ==
    (\A t \in ArmThreads : arm.callers[t].pc = "idle")
        => arm.total_commands = arm.successful_commands + arm.error_count

\* The position commands of the waypoints in order: <<waypoint, axis, angle>>.
RECURSIVE PositionCommands(_, _)
PositionCommands(waypoints, k) ==
    IF k > Len(waypoints) THEN <<>>
    ELSE [i \in DOMAIN waypoints[k].positions |-> <<k, i, waypoints[k].positions[i]>>]
             \o PositionCommands(waypoints, k + 1)

\* C39: execute_task without loop returns True only after it has sent, for
\* every waypoint in order, one command per axis in increasing order, and
\* nothing else.
C39_TrueOnlyAfterAllPositions ==
    [][(/\ arm.exec.pc # "idle"
        /\ arm'.exec.pc = "idle"
        /\ ~arm.exec.loop
        /\ call'.ret = RetTrue)
          => arm'.exec.sent = PositionCommands(tasks[arm.exec.name].waypoints, 1)]_vars

\* C40: with loop, execute_task starts no further pass over the waypoints
\* while the backend is disconnected.
C40_NoPassWhileDisconnected ==
    [][(/\ arm.exec.pc # "idle"
        /\ arm.exec.loop
        /\ ~arm.is_connected)
          => arm'.exec.passes = arm.exec.passes]_vars

====
